---- MODULE Spec2Model ----
(***************************************************************************)
(* Model of the widget recognition / repair engine of ineffable            *)
(* (packages/core): Grid, renderWidget, the four parser plugins and the    *)
(* detectWidgets orchestrator.                                             *)
(*                                                                         *)
(* Conventions                                                             *)
(*  - a JavaScript string is a sequence of one-character strings;          *)
(*  - the box-drawing glyphs are written with ASCII stand-ins:             *)
(*      "p" = top-left corner     "q" = top-right corner                   *)
(*      "b" = bottom-left corner  "d" = bottom-right corner                *)
(*      "-" = horizontal glyph    "|" = vertical glyph                     *)
(*  - a cell key `${c},${r}` is the pair <<c, r>>;                         *)
(*  - a confidence is the exact rational [num, den] of the value the code  *)
(*    computes in floating point;                                          *)
(*  - Grid objects live in a heap (a sequence of grid values) and are      *)
(*    named by their index, so that aliasing and cloning are visible.      *)
(***************************************************************************)
EXTENDS Integers, Sequences, FiniteSets, TLC

VARIABLES grid, edits, widget, opts, out

vars == <<grid, edits, widget, opts, out>>

\* ─── bounds ──────────────────────────────────────────────────────────────
GridW == 6
GridH == 3
MaxEdits == 2

\* ─── patterns.ts ─────────────────────────────────────────────────────────
BOX_CHARS ==
  [topLeft |-> "p", topRight |-> "q", bottomLeft |-> "b", bottomRight |-> "d",
   horizontal |-> "-", vertical |-> "|"]

LINE_CHARS == [horizontal |-> "-", vertical |-> "|"]

\* null / undefined, for values that are otherwise records
Null == [type |-> "null"]
\* the null Grid reference
NoRef == 0

Max(a, b) == IF a >= b THEN a ELSE b
Min(a, b) == IF a <= b THEN a ELSE b

\* ─── grid.ts ─────────────────────────────────────────────────────────────
\* new Grid(width, height): every cell a space, no comments
NewGrid(width, height) ==
  [width |-> width, height |-> height,
   cells |-> [i \in 1..(width * height) |-> " "],
   comments |-> <<>>]

InBounds(g, col, row) ==
  ~(col < 0 \/ col >= g.width \/ row < 0 \/ row >= g.height)

GridGet(g, col, row) ==
  IF col < 0 \/ col >= g.width \/ row < 0 \/ row >= g.height THEN " "
  ELSE g.cells[row * g.width + col + 1]

\* a set that writes cells[row * width + col] without testing the bounds
GridSetUnchecked(g, col, row, char) ==
  LET i == row * g.width + col + 1
  IN IF i \in 1..Len(g.cells)
     THEN [g EXCEPT !.cells[i] = IF char = "" THEN " " ELSE char]
     ELSE g

\* char.charAt(0) || " "
GridSet(g, col, row, char) ==
  IF col < 0 \/ col >= g.width \/ row < 0 \/ row >= g.height THEN g
  ELSE [g EXCEPT !.cells[row * g.width + col + 1] = IF char = "" THEN " " ELSE char]

RECURSIVE WriteFrom(_, _, _, _, _)
WriteFrom(g, col, row, str, i) ==
  IF i > Len(str) THEN g
  ELSE WriteFrom(GridSet(g, col + i - 1, row, str[i]), col, row, str, i + 1)

WriteString(g, col, row, str) == WriteFrom(g, col, row, str, 1)

\* A heap is a sequence of grid values; a Grid reference is an index into it.
CloneAliased(heap, ref) == [heap |-> heap, ref |-> ref]

Clone(heap, ref) ==
  [heap |-> Append(heap, [width |-> heap[ref].width, height |-> heap[ref].height,
                          cells |-> heap[ref].cells,
                          comments |-> heap[ref].comments]),
   ref |-> Len(heap) + 1]

\* ─── plugin.ts ───────────────────────────────────────────────────────────
\* key(c, r)
Key(c, r) == <<c, r>>

\* a border that takes in every cell of the rect
filledCells(rect) ==
  {Key(c, r) : c \in rect.col..(rect.col + rect.width - 1),
               r \in rect.row..(rect.row + rect.height - 1)}

\* border cells of a rect: corners and edges, not the interior
borderCells(rect) ==
  {Key(c, rect.row) : c \in rect.col..(rect.col + rect.width - 1)}
    \cup {Key(c, rect.row + rect.height - 1) : c \in rect.col..(rect.col + rect.width - 1)}
    \cup {Key(rect.col, r) : r \in (rect.row + 1)..(rect.row + rect.height - 2)}
    \cup {Key(rect.col + rect.width - 1, r) : r \in (rect.row + 1)..(rect.row + rect.height - 2)}

\* every cell of a rect
rectCells(rect) ==
  {Key(c, r) : c \in rect.col..(rect.col + rect.width - 1),
               r \in rect.row..(rect.row + rect.height - 1)}

Rect(col, row, width, height) ==
  [col |-> col, row |-> row, width |-> width, height |-> height]

\* createContext(grid): the grid and an empty claim set
createContext(g) == [grid |-> g, claimed |-> {}]

isClaimed(ctx, col, row) == Key(col, row) \in ctx.claimed

claim(ctx, cells) == [ctx EXCEPT !.claimed = @ \cup cells]

\* confidence values
Conf(num, den) == [num |-> num, den |-> den]
ConfOne == Conf(1, 1)
\* a >= b on confidences
ConfGE(a, b) == a.num * b.den >= b.num * a.den

FullCandidate(w, cells) ==
  [widget |-> w, cells |-> cells, confidence |-> ConfOne, defects |-> <<>>]

Defect(col, row, actual, expected, description) ==
  [col |-> col, row |-> row, actual |-> actual, expected |-> expected,
   description |-> description]

\* ─── plugins/box.ts ──────────────────────────────────────────────────────
\* while (c < grid.width && grid.get(c, row) === ch) c++
RECURSIVE WhileRight(_, _, _, _)
WhileRight(g, c, row, ch) ==
  IF c < g.width /\ GridGet(g, c, row) = ch THEN WhileRight(g, c + 1, row, ch) ELSE c

\* while (r < grid.height && grid.get(col, r) === ch) r++
RECURSIVE WhileDown(_, _, _, _)
WhileDown(g, col, r, ch) ==
  IF r < g.height /\ GridGet(g, col, r) = ch THEN WhileDown(g, col, r + 1, ch) ELSE r

\* a trace that does not look at the right side between the corners
traceBoxOpenRight(g, startCol, startRow) ==
  LET c == WhileRight(g, startCol + 1, startRow, BOX_CHARS.horizontal)
      width == c - startCol + 1
      r == WhileDown(g, startCol, startRow + 1, BOX_CHARS.vertical)
      height == r - startRow + 1
  IN IF GridGet(g, c, startRow) # BOX_CHARS.topRight THEN Null
     ELSE IF width < 3 THEN Null
     ELSE IF GridGet(g, startCol, r) # BOX_CHARS.bottomLeft THEN Null
     ELSE IF height < 3 THEN Null
     ELSE IF GridGet(g, startCol + width - 1, startRow + height - 1)
               # BOX_CHARS.bottomRight THEN Null
     ELSE IF \E bc \in (startCol + 1)..(startCol + width - 2) :
               GridGet(g, bc, startRow + height - 1) # BOX_CHARS.horizontal THEN Null
     ELSE [type |-> "box", rect |-> Rect(startCol, startRow, width, height)]

traceBox(g, startCol, startRow) ==
  LET c == WhileRight(g, startCol + 1, startRow, BOX_CHARS.horizontal)
      width == c - startCol + 1
      r == WhileDown(g, startCol, startRow + 1, BOX_CHARS.vertical)
      height == r - startRow + 1
  IN IF GridGet(g, c, startRow) # BOX_CHARS.topRight THEN Null
     ELSE IF width < 3 THEN Null
     ELSE IF GridGet(g, startCol, r) # BOX_CHARS.bottomLeft THEN Null
     ELSE IF height < 3 THEN Null
     ELSE IF GridGet(g, startCol + width - 1, startRow + height - 1)
               # BOX_CHARS.bottomRight THEN Null
     ELSE IF \E bc \in (startCol + 1)..(startCol + width - 2) :
               GridGet(g, bc, startRow + height - 1) # BOX_CHARS.horizontal THEN Null
     ELSE IF \E br \in (startRow + 1)..(startRow + height - 2) :
               GridGet(g, startCol + width - 1, br) # BOX_CHARS.vertical THEN Null
     ELSE [type |-> "box", rect |-> Rect(startCol, startRow, width, height)]

\* a corner test that knows the top-left corner only
isTopLeftCorner(ch) == ch = BOX_CHARS.topLeft

isCorner(ch) ==
  ch = BOX_CHARS.topLeft \/ ch = BOX_CHARS.topRight \/
  ch = BOX_CHARS.bottomLeft \/ ch = BOX_CHARS.bottomRight

isHorizOrCornerRight(ch) ==
  ch = BOX_CHARS.horizontal \/ ch = BOX_CHARS.topRight \/ ch = BOX_CHARS.bottomRight
isHorizOrCornerLeft(ch) ==
  ch = BOX_CHARS.horizontal \/ ch = BOX_CHARS.topLeft \/ ch = BOX_CHARS.bottomLeft
isVertOrCornerBottom(ch) ==
  ch = BOX_CHARS.vertical \/ ch = BOX_CHARS.bottomLeft \/ ch = BOX_CHARS.bottomRight
isVertOrCornerTop(ch) ==
  ch = BOX_CHARS.vertical \/ ch = BOX_CHARS.topLeft \/ ch = BOX_CHARS.topRight

\* the loop of scanRight from column c with `gaps` gaps used so far
RECURSIVE ScanRightLoop(_, _, _, _, _)
ScanRightLoop(g, col, row, c, gaps) ==
  LET ch == GridGet(g, c, row)
      endCh == GridGet(g, c, row)
      after == IF endCh = BOX_CHARS.topRight \/ endCh = BOX_CHARS.bottomRight
               THEN c - col + 1 ELSE 0
  IN IF ~(c < g.width) THEN after
     ELSE IF ch = BOX_CHARS.horizontal THEN ScanRightLoop(g, col, row, c + 1, gaps)
     ELSE IF ch = BOX_CHARS.topRight \/ ch = BOX_CHARS.bottomRight THEN c - col + 1
     ELSE IF ch = " " /\ gaps = 0 /\ isHorizOrCornerRight(GridGet(g, c + 1, row))
          THEN ScanRightLoop(g, col, row, c + 1, gaps + 1)
     ELSE after

scanRight(g, col, row) == ScanRightLoop(g, col, row, col + 1, 0)

RECURSIVE ScanLeftLoop(_, _, _, _, _)
ScanLeftLoop(g, col, row, c, gaps) ==
  LET ch == GridGet(g, c, row)
      endCh == GridGet(g, c, row)
      after == IF endCh = BOX_CHARS.topLeft \/ endCh = BOX_CHARS.bottomLeft
               THEN col - c + 1 ELSE 0
  IN IF ~(c >= 0) THEN after
     ELSE IF ch = BOX_CHARS.horizontal THEN ScanLeftLoop(g, col, row, c - 1, gaps)
     ELSE IF ch = BOX_CHARS.topLeft \/ ch = BOX_CHARS.bottomLeft THEN col - c + 1
     ELSE IF ch = " " /\ gaps = 0 /\ isHorizOrCornerLeft(GridGet(g, c - 1, row))
          THEN ScanLeftLoop(g, col, row, c - 1, gaps + 1)
     ELSE after

scanLeft(g, col, row) == ScanLeftLoop(g, col, row, col - 1, 0)

RECURSIVE ScanDownLoop(_, _, _, _, _)
ScanDownLoop(g, col, row, r, gaps) ==
  LET ch == GridGet(g, col, r)
      endCh == GridGet(g, col, r)
      after == IF endCh = BOX_CHARS.bottomLeft \/ endCh = BOX_CHARS.bottomRight
               THEN r - row + 1 ELSE 0
  IN IF ~(r < g.height) THEN after
     ELSE IF ch = BOX_CHARS.vertical THEN ScanDownLoop(g, col, row, r + 1, gaps)
     ELSE IF ch = BOX_CHARS.bottomLeft \/ ch = BOX_CHARS.bottomRight THEN r - row + 1
     ELSE IF ch = " " /\ gaps = 0 /\ isVertOrCornerBottom(GridGet(g, col, r + 1))
          THEN ScanDownLoop(g, col, row, r + 1, gaps + 1)
     ELSE after

scanDown(g, col, row) == ScanDownLoop(g, col, row, row + 1, 0)

RECURSIVE ScanUpLoop(_, _, _, _, _)
ScanUpLoop(g, col, row, r, gaps) ==
  LET ch == GridGet(g, col, r)
      endCh == GridGet(g, col, r)
      after == IF endCh = BOX_CHARS.topLeft \/ endCh = BOX_CHARS.topRight
               THEN row - r + 1 ELSE 0
  IN IF ~(r >= 0) THEN after
     ELSE IF ch = BOX_CHARS.vertical THEN ScanUpLoop(g, col, row, r - 1, gaps)
     ELSE IF ch = BOX_CHARS.topLeft \/ ch = BOX_CHARS.topRight THEN row - r + 1
     ELSE IF ch = " " /\ gaps = 0 /\ isVertOrCornerTop(GridGet(g, col, r - 1))
          THEN ScanUpLoop(g, col, row, r - 1, gaps + 1)
     ELSE after

scanUp(g, col, row) == ScanUpLoop(g, col, row, row - 1, 0)

\* the rects a corner character at (col, row) implies (a sequence of 0 or 1 rect)
inferBoxFromCorner(g, col, row, ch) ==
  LET wR == scanRight(g, col, row)
      wL == scanLeft(g, col, row)
      hD == scanDown(g, col, row)
      hU == scanUp(g, col, row)
  IN IF ch = BOX_CHARS.topLeft THEN
       (IF wR >= 3 /\ hD >= 3 THEN <<Rect(col, row, wR, hD)>> ELSE <<>>)
     ELSE IF ch = BOX_CHARS.topRight THEN
       (IF wL >= 3 /\ hD >= 3 THEN <<Rect(col - wL + 1, row, wL, hD)>> ELSE <<>>)
     ELSE IF ch = BOX_CHARS.bottomLeft THEN
       (IF wR >= 3 /\ hU >= 3 THEN <<Rect(col, row - hU + 1, wR, hU)>> ELSE <<>>)
     ELSE IF ch = BOX_CHARS.bottomRight THEN
       (IF wL >= 3 /\ hU >= 3 THEN <<Rect(col - wL + 1, row - hU + 1, wL, hU)>> ELSE <<>>)
     ELSE <<>>

\* the border positions of a rect with the character expected there, in the
\* order scoreBox visits them: corners, top/bottom edges, left/right edges
BorderExpectations(rect) ==
  LET col == rect.col
      row == rect.row
      width == rect.width
      height == rect.height
      corners ==
        << [c |-> col, r |-> row, expected |-> BOX_CHARS.topLeft,
            description |-> <<"Missing ", BOX_CHARS.topLeft, " corner">>],
           [c |-> col + width - 1, r |-> row, expected |-> BOX_CHARS.topRight,
            description |-> <<"Missing ", BOX_CHARS.topRight, " corner">>],
           [c |-> col, r |-> row + height - 1, expected |-> BOX_CHARS.bottomLeft,
            description |-> <<"Missing ", BOX_CHARS.bottomLeft, " corner">>],
           [c |-> col + width - 1, r |-> row + height - 1,
            expected |-> BOX_CHARS.bottomRight,
            description |-> <<"Missing ", BOX_CHARS.bottomRight, " corner">>] >>
      horiz ==
        [i \in 1..(2 * (width - 2)) |->
           [c |-> col + 1 + ((i - 1) \div 2),
            r |-> IF i % 2 = 1 THEN row ELSE row + height - 1,
            expected |-> BOX_CHARS.horizontal,
            description |-> <<"Missing horizontal edge">>]]
      vert ==
        [i \in 1..(2 * (height - 2)) |->
           [c |-> IF i % 2 = 1 THEN col ELSE col + width - 1,
            r |-> row + 1 + ((i - 1) \div 2),
            expected |-> BOX_CHARS.vertical,
            description |-> <<"Missing vertical edge">>]]
  IN corners \o horiz \o vert

\* a score that takes nothing off for defects over non-space characters
scoreBoxUnpenalized(g, rect) ==
  LET expectations == BorderExpectations(rect)
      Wrong(e) == GridGet(g, e.c, e.r) # e.expected
      wrong == SelectSeq(expectations, Wrong)
      defects ==
        [i \in 1..Len(wrong) |->
           Defect(wrong[i].c, wrong[i].r, GridGet(g, wrong[i].c, wrong[i].r),
                  wrong[i].expected, wrong[i].description)]
      totalChars == 2 * rect.width + 2 * rect.height - 4
      present == Len(expectations) - Len(wrong)
  IN [confidence |-> Conf(present, totalChars), defects |-> defects]

scoreBox(g, rect) ==
  LET expectations == BorderExpectations(rect)
      Wrong(e) == GridGet(g, e.c, e.r) # e.expected
      wrong == SelectSeq(expectations, Wrong)
      defects ==
        [i \in 1..Len(wrong) |->
           Defect(wrong[i].c, wrong[i].r, GridGet(g, wrong[i].c, wrong[i].r),
                  wrong[i].expected, wrong[i].description)]
      totalChars == 2 * rect.width + 2 * rect.height - 4
      present == Len(expectations) - Len(wrong)
      penalties == Cardinality({i \in 1..Len(defects) : defects[i].actual # " "})
  IN \* present / totalChars - 0.1 * penalties, floored at 0
     [confidence |-> Conf(Max(0, 10 * present - penalties * totalChars), 10 * totalChars),
      defects |-> defects]

rectKey(rect) == <<rect.col, rect.row, rect.width, rect.height>>

\* first pass of BoxParserPlugin.detect from cell index i (row-major)
RECURSIVE BoxFullPass(_, _)
BoxFullPass(ctx, i) ==
  LET g == ctx.grid
      c == i % g.width
      r == i \div g.width
      result == traceBox(g, c, r)
  IN IF i >= g.width * g.height THEN <<>>
     ELSE IF isClaimed(ctx, c, r) THEN BoxFullPass(ctx, i + 1)
     ELSE IF GridGet(g, c, r) # BOX_CHARS.topLeft THEN BoxFullPass(ctx, i + 1)
     ELSE IF result # Null
          THEN <<FullCandidate(result, borderCells(result.rect))>> \o BoxFullPass(ctx, i + 1)
     ELSE BoxFullPass(ctx, i + 1)

\* the candidates one inferred rect adds, given the rect keys seen so far
BoxPartialOf(g, rect, validRects) ==
  LET scored == scoreBox(g, rect)
  IN IF rectKey(rect) \in validRects THEN <<>>
     ELSE IF ConfGE(scored.confidence, Conf(1, 2)) /\ Len(scored.defects) > 0
          THEN << [widget |-> [type |-> "box", rect |-> rect],
                   cells |-> borderCells(rect),
                   confidence |-> scored.confidence,
                   defects |-> scored.defects] >>
     ELSE <<>>

\* second pass of BoxParserPlugin.detect from cell index i (row-major)
RECURSIVE BoxPartialPass(_, _, _)
BoxPartialPass(ctx, i, validRects) ==
  LET g == ctx.grid
      c == i % g.width
      r == i \div g.width
      ch == GridGet(g, c, r)
      inferred == inferBoxFromCorner(g, c, r, ch)
      found == IF Len(inferred) = 0 THEN <<>>
               ELSE BoxPartialOf(g, inferred[1], validRects)
      seen == validRects \cup {rectKey(found[k].widget.rect) : k \in 1..Len(found)}
  IN IF i >= g.width * g.height THEN <<>>
     ELSE IF isClaimed(ctx, c, r) THEN BoxPartialPass(ctx, i + 1, validRects)
     ELSE IF ~isCorner(ch) THEN BoxPartialPass(ctx, i + 1, validRects)
     ELSE found \o BoxPartialPass(ctx, i + 1, seen)

BoxDetect(ctx) ==
  LET full == BoxFullPass(ctx, 0)
      validRects == {rectKey(full[k].widget.rect) : k \in 1..Len(full)}
  IN full \o BoxPartialPass(ctx, 0, validRects)

\* a repair that writes every defect, blank cell or not
RECURSIVE OverwriteDefects(_, _, _)
OverwriteDefects(g, defects, i) ==
  IF i > Len(defects) THEN g
  ELSE OverwriteDefects(GridSet(g, defects[i].col, defects[i].row, defects[i].expected),
                        defects, i + 1)

\* write each defect's expected character where the cell is a space
RECURSIVE HealDefects(_, _, _)
HealDefects(g, defects, i) ==
  IF i > Len(defects) THEN g
  ELSE HealDefects(
         IF GridGet(g, defects[i].col, defects[i].row) = " "
         THEN GridSet(g, defects[i].col, defects[i].row, defects[i].expected)
         ELSE g,
         defects, i + 1)

\* BoxParserPlugin.repair: [heap, ref]; ref = NoRef when it returns null
BoxRepair(heap, ref, candidate) ==
  IF Len(candidate.defects) = 0 THEN [heap |-> heap, ref |-> NoRef]
  ELSE LET cl == Clone(heap, ref)
       IN [heap |-> [cl.heap EXCEPT ![cl.ref] = HealDefects(@, candidate.defects, 1)],
           ref |-> cl.ref]

\* ─── plugins/button.ts ───────────────────────────────────────────────────
\* the characters of row `row` in columns from..(to - 1), as a string
RowSlice(g, row, from, to) ==
  [i \in 1..Max(0, to - from) |-> GridGet(g, from + i - 1, row)]

\* a trim that removes nothing
NoTrim(str) == str

\* the white space and line terminator characters that trimming removes
WhiteSpace == {" ", "\t", "\n"}

\* String.prototype.trimStart
RECURSIVE TrimStart(_)
TrimStart(str) ==
  IF Len(str) > 0 /\ str[1] \in WhiteSpace THEN TrimStart(Tail(str)) ELSE str

\* String.prototype.trimEnd
RECURSIVE TrimEnd(_)
TrimEnd(str) ==
  IF Len(str) > 0 /\ str[Len(str)] \in WhiteSpace
  THEN TrimEnd(SubSeq(str, 1, Len(str) - 1))
  ELSE str

\* String.prototype.trim
Trim(str) == TrimEnd(TrimStart(str))

\* the loop of traceButton at column c
RECURSIVE TraceButtonLoop(_, _, _, _)
TraceButtonLoop(g, startCol, startRow, c) ==
  IF ~(c < g.width) THEN Null
  ELSE IF GridGet(g, c, startRow) = " " /\ GridGet(g, c + 1, startRow) = "]"
  THEN [type |-> "button",
        label |-> Trim(RowSlice(g, startRow, startCol + 2, c)),
        rect |-> Rect(startCol, startRow, c + 2 - startCol, 1)]
  ELSE TraceButtonLoop(g, startCol, startRow, c + 1)

traceButton(g, startCol, startRow) == TraceButtonLoop(g, startCol, startRow, startCol + 2)

\* lookahead window of tracePartialButton
PartialScanWindow == 40

\* confidence of a partial button: 0.8
ButtonPartialConfidence == Conf(8, 10)

buildPartialCandidate(g, startCol, startRow, endCol, trimmedLabel) ==
  LET closingCol == endCol
      bracketCol == endCol + 1
      width == bracketCol + 1 - startCol
      d1 == IF GridGet(g, closingCol, startRow) # " "
            THEN <<Defect(closingCol, startRow, GridGet(g, closingCol, startRow), " ",
                          <<"Missing closing space">>)>>
            ELSE <<>>
      d2 == IF GridGet(g, bracketCol, startRow) # "]"
            THEN <<Defect(bracketCol, startRow, GridGet(g, bracketCol, startRow), "]",
                          <<"Missing closing bracket">>)>>
            ELSE <<>>
      defects == d1 \o d2
  IN IF Len(defects) = 0 THEN Null
     ELSE [widget |-> [type |-> "button", label |-> trimmedLabel,
                       rect |-> Rect(startCol, startRow, width, 1)],
           cells |-> rectCells(Rect(startCol, startRow, width, 1)),
           confidence |-> ButtonPartialConfidence,
           defects |-> defects]

\* the loop of tracePartialButton at column c
RECURSIVE TracePartialLoop(_, _, _, _, _)
TracePartialLoop(g, startCol, startRow, c, maxScan) ==
  LET ch == GridGet(g, c, startRow)
      label == RowSlice(g, startRow, startCol + 2, c)
      isEnd == ch = " " \/ c >= g.width
      allSpaces == \A check \in c..(Min(g.width, c + 3) - 1) :
                     GridGet(g, check, startRow) = " "
  IN IF ~(c < maxScan)
     THEN (IF Len(Trim(label)) > 0
           THEN buildPartialCandidate(g, startCol, startRow, c, Trim(label))
           ELSE Null)
     ELSE IF isEnd /\ allSpaces /\ Len(Trim(label)) > 0
     THEN buildPartialCandidate(g, startCol, startRow, c, Trim(label))
     ELSE TracePartialLoop(g, startCol, startRow, c + 1, maxScan)

tracePartialButton(g, startCol, startRow) ==
  TracePartialLoop(g, startCol, startRow, startCol + 2,
                   Min(startCol + PartialScanWindow, g.width))

\* ButtonParserPlugin.detect from cell index i (row-major)
RECURSIVE ButtonPass(_, _)
ButtonPass(ctx, i) ==
  LET g == ctx.grid
      c == i % g.width
      r == i \div g.width
      result == traceButton(g, c, r)
      partial == tracePartialButton(g, c, r)
  IN IF i >= g.width * g.height THEN <<>>
     ELSE IF isClaimed(ctx, c, r) THEN ButtonPass(ctx, i + 1)
     ELSE IF GridGet(g, c, r) # "[" THEN ButtonPass(ctx, i + 1)
     ELSE IF GridGet(g, c + 1, r) # " " THEN ButtonPass(ctx, i + 1)
     ELSE IF result # Null
          THEN <<FullCandidate(result, rectCells(result.rect))>> \o ButtonPass(ctx, i + 1)
     ELSE IF partial # Null THEN <<partial>> \o ButtonPass(ctx, i + 1)
     ELSE ButtonPass(ctx, i + 1)

ButtonDetect(ctx) == ButtonPass(ctx, 0)

ButtonRepair(heap, ref, candidate) ==
  IF Len(candidate.defects) = 0 THEN [heap |-> heap, ref |-> NoRef]
  ELSE LET cl == Clone(heap, ref)
       IN [heap |-> [cl.heap EXCEPT ![cl.ref] = HealDefects(@, candidate.defects, 1)],
           ref |-> cl.ref]

\* ─── plugins/line.ts ─────────────────────────────────────────────────────
\* the loop of traceHorizontal at column c
RECURSIVE TraceHorizontalLoop(_, _, _, _)
TraceHorizontalLoop(ctx, startRow, localClaimed, c) ==
  IF c < ctx.grid.width
     /\ GridGet(ctx.grid, c, startRow) = LINE_CHARS.horizontal
     /\ ~isClaimed(ctx, c, startRow)
     /\ Key(c, startRow) \notin localClaimed
  THEN TraceHorizontalLoop(ctx, startRow, localClaimed, c + 1)
  ELSE c

\* a trace that also returns a run of a single glyph
traceHorizontalSingle(ctx, startCol, startRow, localClaimed) ==
  LET c == TraceHorizontalLoop(ctx, startRow, localClaimed, startCol)
      length == c - startCol
  IN IF length < 1 THEN Null
     ELSE [type |-> "line", direction |-> "horizontal",
           rect |-> Rect(startCol, startRow, length, 1)]

traceHorizontal(ctx, startCol, startRow, localClaimed) ==
  LET c == TraceHorizontalLoop(ctx, startRow, localClaimed, startCol)
      length == c - startCol
  IN IF length < 2 THEN Null
     ELSE [type |-> "line", direction |-> "horizontal",
           rect |-> Rect(startCol, startRow, length, 1)]

\* the loop of traceVertical at row r
RECURSIVE TraceVerticalLoop(_, _, _, _)
TraceVerticalLoop(ctx, startCol, localClaimed, r) ==
  IF r < ctx.grid.height
     /\ GridGet(ctx.grid, startCol, r) = LINE_CHARS.vertical
     /\ ~isClaimed(ctx, startCol, r)
     /\ Key(startCol, r) \notin localClaimed
  THEN TraceVerticalLoop(ctx, startCol, localClaimed, r + 1)
  ELSE r

traceVertical(ctx, startCol, startRow, localClaimed) ==
  LET r == TraceVerticalLoop(ctx, startCol, localClaimed, startRow)
      length == r - startRow
  IN IF length < 2 THEN Null
     ELSE [type |-> "line", direction |-> "vertical",
           rect |-> Rect(startCol, startRow, 1, length)]

\* first loop of LineParserPlugin.detect from cell index i: [candidates, localClaimed]
RECURSIVE LineFullPass(_, _, _, _)
LineFullPass(ctx, i, candidates, localClaimed) ==
  LET g == ctx.grid
      c == i % g.width
      r == i \div g.width
      result == IF GridGet(g, c, r) = LINE_CHARS.horizontal
                THEN traceHorizontal(ctx, c, r, localClaimed)
                ELSE IF GridGet(g, c, r) = LINE_CHARS.vertical
                THEN traceVertical(ctx, c, r, localClaimed)
                ELSE Null
  IN IF i >= g.width * g.height
     THEN [candidates |-> candidates, localClaimed |-> localClaimed]
     ELSE IF isClaimed(ctx, c, r) \/ Key(c, r) \in localClaimed
     THEN LineFullPass(ctx, i + 1, candidates, localClaimed)
     ELSE IF result # Null
     THEN LineFullPass(ctx, i + 1,
                       Append(candidates, FullCandidate(result, rectCells(result.rect))),
                       localClaimed \cup rectCells(result.rect))
     ELSE LineFullPass(ctx, i + 1, candidates, localClaimed)

\* a gap confidence of 0.65
LowGapConfidence == Conf(65, 100)

\* confidence of a gap candidate: 0.85
LineGapConfidence == Conf(85, 100)

RECURSIVE ExtendLeft(_, _, _)
ExtendLeft(ctx, r, left) ==
  IF left > 0 /\ GridGet(ctx.grid, left - 1, r) = LINE_CHARS.horizontal
     /\ ~isClaimed(ctx, left - 1, r)
  THEN ExtendLeft(ctx, r, left - 1) ELSE left

RECURSIVE ExtendRight(_, _, _)
ExtendRight(ctx, r, right) ==
  IF right < ctx.grid.width - 1 /\ GridGet(ctx.grid, right + 1, r) = LINE_CHARS.horizontal
     /\ ~isClaimed(ctx, right + 1, r)
  THEN ExtendRight(ctx, r, right + 1) ELSE right

RECURSIVE ExtendUp(_, _, _)
ExtendUp(ctx, c, top) ==
  IF top > 0 /\ GridGet(ctx.grid, c, top - 1) = LINE_CHARS.vertical
     /\ ~isClaimed(ctx, c, top - 1)
  THEN ExtendUp(ctx, c, top - 1) ELSE top

RECURSIVE ExtendDown(_, _, _)
ExtendDown(ctx, c, bottom) ==
  IF bottom < ctx.grid.height - 1 /\ GridGet(ctx.grid, c, bottom + 1) = LINE_CHARS.vertical
     /\ ~isClaimed(ctx, c, bottom + 1)
  THEN ExtendDown(ctx, c, bottom + 1) ELSE bottom

\* is (c, r) a horizontal gap cell that detectGaps proposes
IsHorizontalGap(ctx, localClaimed, c, r) ==
  /\ ~(isClaimed(ctx, c, r) \/ Key(c, r) \in localClaimed)
  /\ GridGet(ctx.grid, c, r) = " "
  /\ GridGet(ctx.grid, c - 1, r) = LINE_CHARS.horizontal
  /\ GridGet(ctx.grid, c + 1, r) = LINE_CHARS.horizontal
  /\ ~(isClaimed(ctx, c - 1, r) \/ isClaimed(ctx, c + 1, r))

HorizontalGapCandidate(ctx, c, r) ==
  LET left == ExtendLeft(ctx, r, c - 1)
      right == ExtendRight(ctx, r, c + 1)
      rect == Rect(left, r, right - left + 1, 1)
  IN [widget |-> [type |-> "line", direction |-> "horizontal", rect |-> rect],
      cells |-> rectCells(rect),
      confidence |-> LineGapConfidence,
      defects |-> <<Defect(c, r, " ", LINE_CHARS.horizontal, <<"Gap in horizontal line">>)>>]

IsVerticalGap(ctx, localClaimed, c, r) ==
  /\ ~(isClaimed(ctx, c, r) \/ Key(c, r) \in localClaimed)
  /\ GridGet(ctx.grid, c, r) = " "
  /\ GridGet(ctx.grid, c, r - 1) = LINE_CHARS.vertical
  /\ GridGet(ctx.grid, c, r + 1) = LINE_CHARS.vertical
  /\ ~(isClaimed(ctx, c, r - 1) \/ isClaimed(ctx, c, r + 1))

VerticalGapCandidate(ctx, c, r) ==
  LET top == ExtendUp(ctx, c, r - 1)
      bottom == ExtendDown(ctx, c, r + 1)
      rect == Rect(c, top, 1, bottom - top + 1)
  IN [widget |-> [type |-> "line", direction |-> "vertical", rect |-> rect],
      cells |-> rectCells(rect),
      confidence |-> LineGapConfidence,
      defects |-> <<Defect(c, r, " ", LINE_CHARS.vertical, <<"Gap in vertical line">>)>>]

\* horizontal loop of detectGaps: rows outermost, columns 1..width-2;
\* j enumerates (r, c) in that order
RECURSIVE HorizontalGaps(_, _, _)
HorizontalGaps(ctx, localClaimed, j) ==
  LET span == ctx.grid.width - 2
      r == j \div span
      c == 1 + (j % span)
  IN IF span <= 0 \/ j >= span * ctx.grid.height THEN <<>>
     ELSE IF IsHorizontalGap(ctx, localClaimed, c, r)
     THEN <<HorizontalGapCandidate(ctx, c, r)>> \o HorizontalGaps(ctx, localClaimed, j + 1)
     ELSE HorizontalGaps(ctx, localClaimed, j + 1)

\* vertical loop of detectGaps: columns outermost, rows 1..height-2
RECURSIVE VerticalGaps(_, _, _)
VerticalGaps(ctx, localClaimed, j) ==
  LET span == ctx.grid.height - 2
      c == j \div span
      r == 1 + (j % span)
  IN IF span <= 0 \/ j >= span * ctx.grid.width THEN <<>>
     ELSE IF IsVerticalGap(ctx, localClaimed, c, r)
     THEN <<VerticalGapCandidate(ctx, c, r)>> \o VerticalGaps(ctx, localClaimed, j + 1)
     ELSE VerticalGaps(ctx, localClaimed, j + 1)

detectGaps(ctx, localClaimed) ==
  HorizontalGaps(ctx, localClaimed, 0) \o VerticalGaps(ctx, localClaimed, 0)

LineDetect(ctx) ==
  LET full == LineFullPass(ctx, 0, <<>>, {})
  IN full.candidates \o detectGaps(ctx, full.localClaimed)

LineRepair(heap, ref, candidate) ==
  IF Len(candidate.defects) = 0 THEN [heap |-> heap, ref |-> NoRef]
  ELSE LET cl == Clone(heap, ref)
       IN [heap |-> [cl.heap EXCEPT ![cl.ref] = HealDefects(@, candidate.defects, 1)],
           ref |-> cl.ref]

\* ─── plugins/text.ts ─────────────────────────────────────────────────────
\* a row scan that stops at the last column and so never closes a run that
\* reaches it
RECURSIVE TextRowOpen(_, _, _, _)
TextRowOpen(ctx, r, c, textStart) ==
  LET g == ctx.grid
      ch == GridGet(g, c, r)
      claimed == isClaimed(ctx, c, r)
      rect == Rect(textStart, r, c - textStart, 1)
  IN IF ~(c < g.width) THEN <<>>
     ELSE IF ch # " " /\ ~claimed
     THEN TextRowOpen(ctx, r, c + 1, IF textStart = -1 THEN c ELSE textStart)
     ELSE IF textStart # -1
     THEN <<FullCandidate([type |-> "text", content |-> RowSlice(g, r, textStart, c),
                           rect |-> rect],
                          rectCells(rect))>>
          \o TextRowOpen(ctx, r, c + 1, -1)
     ELSE TextRowOpen(ctx, r, c + 1, textStart)

\* TextParserPlugin.detect on row r at column c, with the open run's start
\* (textStart, -1 when none)
RECURSIVE TextRow(_, _, _, _)
TextRow(ctx, r, c, textStart) ==
  LET g == ctx.grid
      ch == IF c < g.width THEN GridGet(g, c, r) ELSE " "
      claimed == c < g.width /\ isClaimed(ctx, c, r)
      rect == Rect(textStart, r, c - textStart, 1)
  IN IF ~(c <= g.width) THEN <<>>
     ELSE IF ch # " " /\ ~claimed
     THEN TextRow(ctx, r, c + 1, IF textStart = -1 THEN c ELSE textStart)
     ELSE IF textStart # -1
     THEN <<FullCandidate([type |-> "text", content |-> RowSlice(g, r, textStart, c),
                           rect |-> rect],
                          rectCells(rect))>>
          \o TextRow(ctx, r, c + 1, -1)
     ELSE TextRow(ctx, r, c + 1, textStart)

RECURSIVE TextRows(_, _)
TextRows(ctx, r) ==
  IF r >= ctx.grid.height THEN <<>>
  ELSE TextRow(ctx, r, 0, -1) \o TextRows(ctx, r + 1)

\* a detect that takes no notice of the claimed cells
TextDetectUnclaimed(ctx) == TextRows(createContext(ctx.grid), 0)

\* a detect that returns the runs last to first
TextDetectReversed(ctx) ==
  LET runs == TextRows(ctx, 0)
  IN [i \in 1..Len(runs) |-> runs[Len(runs) + 1 - i]]

TextDetect(ctx) == TextRows(ctx, 0)

\* TextParserPlugin.repair: always null
TextRepair(heap, ref, candidate) == [heap |-> heap, ref |-> NoRef]

\* ─── plugins/index.ts ────────────────────────────────────────────────────
BoxParserPlugin == [name |-> "box", priority |-> 10]
ButtonParserPlugin == [name |-> "button", priority |-> 20]
LineParserPlugin == [name |-> "line", priority |-> 30]
TextParserPlugin == [name |-> "text", priority |-> 40]

DEFAULT_PLUGINS == <<BoxParserPlugin, ButtonParserPlugin, LineParserPlugin, TextParserPlugin>>

\* plugin.detect(ctx)
PluginDetect(plugin, ctx) ==
  CASE plugin.name = "box" -> BoxDetect(ctx)
    [] plugin.name = "button" -> ButtonDetect(ctx)
    [] plugin.name = "line" -> LineDetect(ctx)
    [] plugin.name = "text" -> TextDetect(ctx)

\* plugin.repair(grid, candidate)
PluginRepair(plugin, heap, ref, candidate) ==
  CASE plugin.name = "box" -> BoxRepair(heap, ref, candidate)
    [] plugin.name = "button" -> ButtonRepair(heap, ref, candidate)
    [] plugin.name = "line" -> LineRepair(heap, ref, candidate)
    [] plugin.name = "text" -> TextRepair(heap, ref, candidate)

\* ─── parser.ts ───────────────────────────────────────────────────────────
\* stable insertion of p into a list sorted by priority
RECURSIVE InsertByPriority(_, _)
InsertByPriority(sorted, p) ==
  IF Len(sorted) = 0 THEN <<p>>
  ELSE IF sorted[Len(sorted)].priority - p.priority <= 0 THEN Append(sorted, p)
  ELSE Append(InsertByPriority(SubSeq(sorted, 1, Len(sorted) - 1), p), sorted[Len(sorted)])

RECURSIVE SortFrom(_, _, _)
SortFrom(list, i, sorted) ==
  IF i > Len(list) THEN sorted
  ELSE SortFrom(list, i + 1, InsertByPriority(sorted, list[i]))

\* the list as given, unsorted
Unsorted(list) == list

\* [...list].sort((a, b) => a.priority - b.priority): stable, ascending
SortByPriority(list) == SortFrom(list, 1, <<>>)

\* options: `given` is false for detectWidgets(grid); has* tell whether the
\* optional field is present
NoOptions ==
  [given |-> FALSE, repair |-> FALSE, hasThreshold |-> FALSE,
   repairThreshold |-> Conf(0, 1), hasPlugins |-> FALSE, plugins |-> <<>>]

Options(repair, hasThreshold, threshold, hasPlugins, plugins) ==
  [given |-> TRUE, repair |-> repair, hasThreshold |-> hasThreshold,
   repairThreshold |-> threshold, hasPlugins |-> hasPlugins, plugins |-> plugins]

\* a default threshold of 0.5
HalfThreshold == Conf(1, 2)

\* default repair threshold: 0.7
DefaultThreshold == Conf(7, 10)

\* cells of grid b that differ from grid a, as writes [col, row, before, after]
WritesBetween(a, b) ==
  {[col |-> c, row |-> r, before |-> GridGet(a, c, r), after |-> GridGet(b, c, r)] :
     <<c, r>> \in {<<c, r>> \in (0..(a.width - 1)) \X (0..(a.height - 1)) :
                     GridGet(a, c, r) # GridGet(b, c, r)}}

\* a pass that takes the repaired grid but does not list the defects
AfterPluginRepairUnlisted(st, candidate, cl, rep) ==
  IF rep.ref # NoRef
  THEN [st EXCEPT !.heap = rep.heap,
                  !.cloned = rep.ref,
                  !.didRepair = TRUE,
                  !.partials = Append(@, candidate),
                  !.repaired = Append(@, candidate),
                  !.writes = @ \cup WritesBetween(cl.heap[cl.ref], rep.heap[rep.ref])]
  ELSE [st EXCEPT !.heap = rep.heap, !.cloned = cl.ref,
                  !.partials = Append(@, candidate)]

\* the pass state after plugin.repair returned rep for the clone cl
AfterPluginRepair(st, candidate, cl, rep) ==
  IF rep.ref # NoRef
  THEN [st EXCEPT !.heap = rep.heap,
                  !.cloned = rep.ref,
                  !.didRepair = TRUE,
                  !.allRepairs = @ \o candidate.defects,
                  !.partials = Append(@, candidate),
                  !.repaired = Append(@, candidate),
                  !.writes = @ \cup WritesBetween(cl.heap[cl.ref], rep.heap[rep.ref])]
  ELSE [st EXCEPT !.heap = rep.heap, !.cloned = cl.ref,
                  !.partials = Append(@, candidate)]

\* const repaired = plugin.repair(cloned, candidate), cl being the clone
RepairOnClone(st, plugin, candidate, cl) ==
  AfterPluginRepair(st, candidate, cl, PluginRepair(plugin, cl.heap, cl.ref, candidate))

\* the body of the repair pass for one candidate; st is the pass state
RepairStep(st, plugin, candidate, threshold) ==
  IF ConfGE(candidate.confidence, ConfOne)
  THEN [st EXCEPT !.claimed = @ \cup candidate.cells,
                  !.validCells = @ \cup candidate.cells]
  ELSE IF ConfGE(candidate.confidence, threshold) /\ Len(candidate.defects) > 0
  THEN RepairOnClone(st, plugin, candidate,
                     IF st.cloned = NoRef THEN Clone(st.heap, st.workingGrid)
                     ELSE [heap |-> st.heap, ref |-> st.cloned])
  ELSE [st EXCEPT !.partials = Append(@, candidate)]

RECURSIVE RepairCandidates(_, _, _, _, _)
RepairCandidates(st, plugin, candidates, i, threshold) ==
  IF i > Len(candidates) THEN st
  ELSE RepairCandidates(RepairStep(st, plugin, candidates[i], threshold),
                        plugin, candidates, i + 1, threshold)

RECURSIVE RepairPass(_, _, _, _)
RepairPass(st, plugins, k, threshold) ==
  IF k > Len(plugins) THEN st
  ELSE LET ctx == [grid |-> st.heap[st.workingGrid], claimed |-> st.claimed]
           candidates == PluginDetect(plugins[k], ctx)
       IN RepairPass(
            RepairCandidates([st EXCEPT !.calls = Append(@, plugins[k])],
                             plugins[k], candidates, 1, threshold),
            plugins, k + 1, threshold)

\* the body of the detection pass for one candidate
AcceptStep(st, candidate) ==
  IF ConfGE(candidate.confidence, ConfOne)
  THEN [st EXCEPT !.widgets = Append(@, candidate.widget),
                  !.claimed = @ \cup candidate.cells,
                  !.accepted = Append(@, candidate)]
  ELSE st

RECURSIVE AcceptCandidates(_, _, _)
AcceptCandidates(st, candidates, i) ==
  IF i > Len(candidates) THEN st
  ELSE AcceptCandidates(AcceptStep(st, candidates[i]), candidates, i + 1)

RECURSIVE DetectionPass(_, _, _, _)
DetectionPass(st, g, plugins, k) ==
  IF k > Len(plugins) THEN st
  ELSE LET ctx == [grid |-> g, claimed |-> st.claimed]
           candidates == PluginDetect(plugins[k], ctx)
       IN DetectionPass(
            AcceptCandidates([st EXCEPT !.calls = Append(@, plugins[k])],
                             candidates, 1),
            g, plugins, k + 1)

\* the state a call starts from: a heap holding the input grid as object 1
StartState(g) ==
  [heap |-> <<g>>, workingGrid |-> 1, claimed |-> {}, cloned |-> NoRef,
   didRepair |-> FALSE, allRepairs |-> <<>>, calls |-> <<>>,
   validCells |-> {}, partials |-> <<>>, repaired |-> <<>>, writes |-> {}]

\* what the call returns and what it did, given the state rp the repair pass
\* left, the object detection ran on and the state dp the detection pass
\* left.  `value` is what the call returns; the other fields record the grid
\* as passed (given), the input object afterwards (input), and per pass the
\* detect calls, the candidates seen and the cells written.
Outcome(g, options, rp, workingGrid, dp) ==
  [value |-> IF ~options.given THEN [widgets |-> dp.widgets]
             ELSE [widgets |-> dp.widgets, grid |-> rp.heap[workingGrid],
                   repairs |-> rp.allRepairs],
   gridIsInput |-> workingGrid = 1,
   given |-> g,
   input |-> rp.heap[1],
   repairCalls |-> rp.calls,
   detectCalls |-> dp.calls,
   validCells |-> rp.validCells,
   partials |-> rp.partials,
   repaired |-> rp.repaired,
   writes |-> rp.writes,
   accepted |-> dp.accepted]

\* a detection pass that starts from the claims the repair pass made
DetectOnWithRepairClaims(g, options, plugins, rp, workingGrid) ==
  Outcome(g, options, rp, workingGrid,
          DetectionPass([widgets |-> <<>>, claimed |-> rp.claimed, accepted |-> <<>>,
                         calls |-> <<>>],
                        rp.heap[workingGrid], plugins, 1))

\* the main detection pass on the working grid
DetectOn(g, options, plugins, rp, workingGrid) ==
  Outcome(g, options, rp, workingGrid,
          DetectionPass([widgets |-> <<>>, claimed |-> {}, accepted |-> <<>>,
                         calls |-> <<>>],
                        rp.heap[workingGrid], plugins, 1))

\* if (didRepair && cloned) workingGrid = cloned
AfterRepair(g, options, plugins, rp) ==
  DetectOn(g, options, plugins, rp,
           IF rp.didRepair /\ rp.cloned # NoRef THEN rp.cloned ELSE 1)

\* a call that runs the repair pass whatever the options say
DetectWithRepairAlways(g, options, plugins, threshold) ==
  AfterRepair(g, options, plugins, RepairPass(StartState(g), plugins, 1, threshold))

\* the call with its sorted plugin list and its threshold
DetectWith(g, options, plugins, threshold) ==
  AfterRepair(g, options, plugins,
              IF options.given /\ options.repair
              THEN RepairPass(StartState(g), plugins, 1, threshold)
              ELSE StartState(g))

\* One call detectWidgets(grid, options).
detectWidgets(g, options) ==
  DetectWith(g, options,
             SortByPriority(IF options.hasPlugins THEN options.plugins
                            ELSE DEFAULT_PLUGINS),
             IF options.hasThreshold THEN options.repairThreshold
             ELSE DefaultThreshold)

\* ─── render.ts ───────────────────────────────────────────────────────────
\* for (c = from; c < to; c++) { set(c, row, ch); set(c, row2, ch) }
RECURSIVE RenderHorizontalEdges(_, _, _, _, _)
RenderHorizontalEdges(g, c, to, row, row2) ==
  IF ~(c < to) THEN g
  ELSE RenderHorizontalEdges(
         GridSet(GridSet(g, c, row, BOX_CHARS.horizontal), c, row2, BOX_CHARS.horizontal),
         c + 1, to, row, row2)

\* for (r = from; r < to; r++) { set(col, r, ch); set(col2, r, ch) }
RECURSIVE RenderVerticalEdges(_, _, _, _, _)
RenderVerticalEdges(g, r, to, col, col2) ==
  IF ~(r < to) THEN g
  ELSE RenderVerticalEdges(
         GridSet(GridSet(g, col, r, BOX_CHARS.vertical), col2, r, BOX_CHARS.vertical),
         r + 1, to, col, col2)

renderBox(g, col, row, width, height, label) ==
  LET g1 == GridSet(g, col, row, BOX_CHARS.topLeft)
      g2 == GridSet(g1, col + width - 1, row, BOX_CHARS.topRight)
      g3 == GridSet(g2, col, row + height - 1, BOX_CHARS.bottomLeft)
      g4 == GridSet(g3, col + width - 1, row + height - 1, BOX_CHARS.bottomRight)
      g5 == RenderHorizontalEdges(g4, col + 1, col + width - 1, row, row + height - 1)
      g6 == RenderVerticalEdges(g5, row + 1, row + height - 1, col, col + width - 1)
      innerWidth == width - 2
      midRow == row + (height \div 2)
      padLeft == (innerWidth - Len(label)) \div 2
  IN IF Len(label) > 0 THEN WriteString(g6, col + 1 + padLeft, midRow, label) ELSE g6

\* " ".repeat(n)
Spaces(n) == [i \in 1..Max(0, n) |-> " "]

renderButton(g, col, row, label, totalWidth) ==
  LET minWidth == Len(label) + 4
      width == Max(minWidth, totalWidth)
      innerWidth == width - 4
      padTotal == innerWidth - Len(label)
      padLeft == padTotal \div 2
      padRight == padTotal - padLeft
      content == <<"[", " ">> \o Spaces(padLeft) \o label \o Spaces(padRight) \o <<" ", "]">>
  IN WriteString(g, col, row, content)

RECURSIVE RenderLineLoop(_, _, _, _, _, _)
RenderLineLoop(g, col, row, direction, length, i) ==
  IF ~(i < length) THEN g
  ELSE RenderLineLoop(
         IF direction = "horizontal" THEN GridSet(g, col + i, row, LINE_CHARS.horizontal)
         ELSE GridSet(g, col, row + i, LINE_CHARS.vertical),
         col, row, direction, length, i + 1)

renderLine(g, col, row, direction, length) == RenderLineLoop(g, col, row, direction, length, 0)

\* renderWidget(grid, widget): the grid after the call.  A box widget built by
\* the editor may carry a label; widget.label is undefined otherwise.
renderWidget(g, w) ==
  CASE w.type = "box" ->
         renderBox(g, w.rect.col, w.rect.row, w.rect.width, w.rect.height,
                   IF "label" \in DOMAIN w THEN w.label ELSE <<>>)
    [] w.type = "button" ->
         renderButton(g, w.rect.col, w.rect.row, w.label, w.rect.width)
    [] w.type = "text" ->
         WriteString(g, w.rect.col, w.rect.row, w.content)
    [] w.type = "line" ->
         renderLine(g, w.rect.col, w.rect.row, w.direction,
                    IF w.direction = "horizontal" THEN w.rect.width ELSE w.rect.height)

\* ─── editor session: draw on a grid, then detect ─────────────────────────
BoxW(col, row, width, height) == [type |-> "box", rect |-> Rect(col, row, width, height)]
ButtonW(col, row, label, width) ==
  [type |-> "button", label |-> label, rect |-> Rect(col, row, width, 1)]
LineW(col, row, direction, length) ==
  [type |-> "line", direction |-> direction,
   rect |-> IF direction = "horizontal" THEN Rect(col, row, length, 1)
            ELSE Rect(col, row, 1, length)]
TextW(col, row, content) ==
  [type |-> "text", content |-> content, rect |-> Rect(col, row, Len(content), 1)]

Fits(rect, width, height) ==
  /\ rect.col >= 0 /\ rect.row >= 0
  /\ rect.col + rect.width <= width
  /\ rect.row + rect.height <= height

Cols == 0..(GridW - 1)
Rows == 0..(GridH - 1)

\* labels the session's buttons carry
Labels == {<<"x">>}

\* well-formed widgets the session places: they fit the grid
PlacedWidgets ==
  {w \in {BoxW(c, r, w, h) : c \in Cols, r \in Rows, w \in 3..GridW, h \in 3..GridH}
          \cup {ButtonW(c, r, l, Len(l) + 4) : c \in Cols, r \in Rows, l \in Labels}
          \cup {LineW(c, r, "horizontal", n) : c \in Cols, r \in Rows, n \in 2..GridW}
          \cup {LineW(c, r, "vertical", n) : c \in Cols, r \in Rows, n \in 2..GridH} :
     Fits(w.rect, GridW, GridH)}

\* characters the session types into single cells
TypedChars == {" ", "x", "["}

\* the option objects the session passes
SessionOptions ==
  {NoOptions,
   Options(TRUE, FALSE, Conf(0, 1), FALSE, <<>>),
   Options(TRUE, TRUE, Conf(99, 100), FALSE, <<>>)}

NoOutput == [type |-> "none"]

\* the comment lines of the diagram the session starts from: one line "# c"
HeaderComments == << <<"#", " ", "c">> >>

\* a blank diagram of the given size carrying the header comments
BlankDiagram(width, height) == [NewGrid(width, height) EXCEPT !.comments = HeaderComments]

Init ==
  /\ grid = BlankDiagram(GridW, GridH)
  /\ edits = 0
  /\ widget = Null
  /\ opts = NoOptions
  /\ out = NoOutput

\* the editor stamps a widget: renderWidget(grid, w)
Place(w) ==
  /\ out = NoOutput
  /\ edits < MaxEdits
  /\ grid' = renderWidget(grid, w)
  /\ edits' = edits + 1
  /\ UNCHANGED <<widget, opts, out>>

\* the editor writes one cell: grid.set(col, row, ch)
Type(col, row, ch) ==
  /\ out = NoOutput
  /\ edits < MaxEdits
  /\ grid' = GridSet(grid, col, row, ch)
  /\ edits' = edits + 1
  /\ UNCHANGED <<widget, opts, out>>

\* the caller holds the result; the Grid object it passed is `grid`
Returned(res, options) ==
  /\ out' = res
  /\ grid' = res.input
  /\ opts' = options
  /\ UNCHANGED <<edits, widget>>

\* detectWidgets(grid, options)
Detect(options) ==
  /\ out = NoOutput
  /\ Returned(detectWidgets(grid, options), options)

Next ==
  \/ \E w \in PlacedWidgets : Place(w)
  \/ \E c \in Cols, r \in Rows, ch \in TypedChars : Type(c, r, ch)
  \/ \E o \in SessionOptions : Detect(o)

Spec == Init /\ [][Next]_vars

\* ─── properties ──────────────────────────────────────────────────────────
Called == out # NoOutput
RepairEnabled == Called /\ opts.given /\ opts.repair

Overlap(a, b) ==
  /\ a.col < b.col + b.width /\ a.col + a.width > b.col
  /\ a.row < b.row + b.height /\ a.row + a.height > b.row

\* a containment test that lets the sides touch
InsideOrTouching(wr, container) ==
  /\ wr.col >= container.col
  /\ wr.row >= container.row
  /\ wr.col + wr.width <= container.col + container.width
  /\ wr.row + wr.height <= container.row + container.height

StrictlyInside(wr, container) ==
  /\ wr.col > container.col
  /\ wr.row > container.row
  /\ wr.col + wr.width < container.col + container.width
  /\ wr.row + wr.height < container.row + container.height

AllCells(g) == (0..(g.width - 1)) \X (0..(g.height - 1))

\* C1: no double-claim -- two distinct returned widgets overlap only when one
\* is a Box and the other's rect lies strictly inside it.
C1_NoDoubleClaim ==
  Called =>
    LET ws == out.value.widgets
    IN \A i, j \in 1..Len(ws) :
         (i < j /\ Overlap(ws[i].rect, ws[j].rect)) =>
           \/ ws[i].type = "box" /\ StrictlyInside(ws[j].rect, ws[i].rect)
           \/ ws[j].type = "box" /\ StrictlyInside(ws[i].rect, ws[j].rect)

\* C2: repair non-destructiveness -- every non-space cell of the grid passed
\* to a repair-enabled call holds the same character in the returned grid,
\* and every cell a repair wrote was a space when it was written.
C2_RepairNonDestructive ==
  RepairEnabled =>
    /\ \A cell \in AllCells(out.given) :
         GridGet(out.given, cell[1], cell[2]) # " " =>
           GridGet(out.value.grid, cell[1], cell[2]) = GridGet(out.given, cell[1], cell[2])
    /\ \A w \in out.writes : w.before = " "

\* C2 witness: a candidate was repaired although one of its defects sits on a
\* non-space cell, and a blank cell was written.
C2_Witness ==
  /\ RepairEnabled
  /\ \E i \in 1..Len(out.repaired) :
       \E k \in 1..Len(out.repaired[i].defects) : out.repaired[i].defects[k].actual # " "
  /\ out.writes # {}

\* C3: a perfectly valid widget is never repaired over -- the cells claimed
\* by confidence-1.0 candidates of the repair pass are unchanged in the
\* returned grid.
C3_ValidNeverRepairedOver ==
  RepairEnabled =>
    /\ \A cell \in out.validCells :
         GridGet(out.value.grid, cell[1], cell[2]) = GridGet(out.given, cell[1], cell[2])
    /\ \A w \in out.writes : <<w.col, w.row>> \notin out.validCells

\* C4: detectWidgets never modifies the Grid object passed to it -- cells
\* and comments of the input object after the call are those before it.
C4_InputUnmodified ==
  Called => /\ out.input = out.given
            /\ grid = out.given

\* C4 witness: a diagnostic call with comments on the input that applied a
\* repair and returned a grid other than the input.
C4_Witness ==
  /\ RepairEnabled
  /\ out.writes # {}
  /\ ~out.gridIsInput
  /\ out.given.comments # <<>>
  /\ out.value.grid # out.given

\* C6: threshold gating -- every candidate the repair pass repaired has a
\* confidence of at least the threshold and carries defects; when every
\* partial candidate is below the threshold the result is the no-repair
\* result: the plain widget list, the input grid itself, no repairs.
C6_ThresholdGating ==
  RepairEnabled =>
    LET threshold == IF opts.hasThreshold THEN opts.repairThreshold ELSE Conf(7, 10)
    IN /\ \A i \in 1..Len(out.repaired) :
            /\ ConfGE(out.repaired[i].confidence, threshold)
            /\ Len(out.repaired[i].defects) > 0
       /\ (\A i \in 1..Len(out.partials) : ~ConfGE(out.partials[i].confidence, threshold)) =>
            /\ out.value.widgets = detectWidgets(out.given, NoOptions).value.widgets
            /\ out.gridIsInput
            /\ out.value.grid = out.given
            /\ out.value.repairs = <<>>

\* the 4x3 box at (col, row) with one corner cell blank, on a blank diagram
BoxMissingCorner(col, row, corner) ==
  LET drawn == renderWidget(BlankDiagram(GridW, GridH), BoxW(col, row, 4, 3))
  IN GridSet(drawn, col + 3 * corner[1], row + 2 * corner[2], " ")

BoxesMissingCorner ==
  {BoxMissingCorner(c, r, k) :
     c \in 0..(GridW - 4), r \in 0..(GridH - 3), k \in {0, 1} \X {0, 1}}

\* C6, the example: on a 4x3 box missing one corner (confidence 0.9),
\* threshold 0.99 suppresses the repair and the default 0.7 allows it.
C6_Example ==
  (RepairEnabled /\ out.given \in BoxesMissingCorner) =>
    IF opts.hasThreshold /\ opts.repairThreshold = Conf(99, 100)
    THEN /\ out.value.repairs = <<>>
         /\ out.value.grid = out.given
         /\ \A i \in 1..Len(out.value.widgets) : out.value.widgets[i].type # "box"
    ELSE /\ out.value.repairs # <<>>
         /\ out.value.grid # out.given
         /\ \E i \in 1..Len(out.value.widgets) : out.value.widgets[i].type = "box"

\* C6: threshold gating, the general statement and the 4x3 example together.
C6_Theorem == C6_ThresholdGating /\ C6_Example

\* C6 witness: threshold 0.99 left a partial candidate of a 4x3 box missing
\* a corner unrepaired.
C6_Witness ==
  /\ RepairEnabled
  /\ opts.hasThreshold
  /\ out.given \in BoxesMissingCorner
  /\ Len(out.partials) > 0
  /\ out.repaired = <<>>
  /\ out.value.repairs = <<>>

\* C6 witness: the default threshold repaired the same kind of drawing.
C6_WitnessAllowed ==
  /\ RepairEnabled
  /\ ~opts.hasThreshold
  /\ out.given \in BoxesMissingCorner
  /\ Len(out.repaired) > 0

\* ─── one damaged drawing: draw a box or a line, blank one of its cells ───
\* grid size of the damaged-drawing session
RepairW == 5
RepairH == 5

\* boxes of at least 3x3 and lines of at least 2 that fit the grid
DrawnWidgets ==
  {w \in {BoxW(c, r, w, h) : c \in 0..(RepairW - 1), r \in 0..(RepairH - 1),
                              w \in 3..RepairW, h \in 3..RepairH}
          \cup {LineW(c, r, "horizontal", n) :
                  c \in 0..(RepairW - 1), r \in 0..(RepairH - 1), n \in 2..RepairW}
          \cup {LineW(c, r, "vertical", n) :
                  c \in 0..(RepairW - 1), r \in 0..(RepairH - 1), n \in 2..RepairH} :
     Fits(w.rect, RepairW, RepairH)}

\* the cells a drawn widget occupies: a box's border, a line's rect
DrawnCells(w) == IF w.type = "box" THEN borderCells(w.rect) ELSE rectCells(w.rect)

InitRepair ==
  /\ grid = BlankDiagram(RepairW, RepairH)
  /\ edits = 0
  /\ widget = Null
  /\ opts = NoOptions
  /\ out = NoOutput

\* renderWidget(grid, w) on the blank grid
Draw(w) ==
  /\ out = NoOutput
  /\ widget = Null
  /\ grid' = renderWidget(grid, w)
  /\ widget' = w
  /\ UNCHANGED <<edits, opts, out>>

\* grid.set(col, row, " ") on one cell of the drawn widget
Erase(col, row) ==
  /\ out = NoOutput
  /\ widget # Null
  /\ edits = 0
  /\ Key(col, row) \in DrawnCells(widget)
  /\ grid' = GridSet(grid, col, row, " ")
  /\ edits' = 1
  /\ UNCHANGED <<widget, opts, out>>

NextRepair ==
  \/ \E w \in DrawnWidgets : Draw(w)
  \/ \E c \in 0..(RepairW - 1), r \in 0..(RepairH - 1) : Erase(c, r)
  \/ \E o \in SessionOptions : Detect(o)

SpecRepair == InitRepair /\ [][NextRepair]_vars

\* the widgets of one type in a returned list
OfType(widgets, type) == {i \in 1..Len(widgets) : widgets[i].type = type}

\* a drawn widget of the given type with exactly one of its cells blanked
Damaged(type) == Called /\ widget # Null /\ widget.type = type /\ edits = 1

\* the grid as the widget was drawn, before the cell was blanked
AsDrawn == renderWidget(BlankDiagram(grid.width, grid.height), widget)

\* C5: single-defect box repair -- a box of at least 3x3 with one border cell
\* blank gives no Box in plain detection; with repair at the default
\* threshold it gives exactly one Box, with the drawn rect, the expected
\* glyph back in the blank cell, and a non-empty repairs list.
C5_SingleDefectBoxRepair ==
  Damaged("box") =>
    /\ ~opts.given => OfType(out.value.widgets, "box") = {}
    /\ (opts.given /\ opts.repair /\ ~opts.hasThreshold) =>
         /\ Cardinality(OfType(out.value.widgets, "box")) = 1
         /\ \A i \in OfType(out.value.widgets, "box") :
              out.value.widgets[i].rect = widget.rect
         /\ \A cell \in DrawnCells(widget) :
              GridGet(out.value.grid, cell[1], cell[2]) = GridGet(AsDrawn, cell[1], cell[2])
         /\ out.value.repairs # <<>>

\* C5 witness: repair at the default threshold ran on a box of height and
\* width above 3 whose corner was blanked.
C5_Witness ==
  /\ Damaged("box")
  /\ opts.given /\ opts.repair /\ ~opts.hasThreshold
  /\ widget.rect.width > 3 /\ widget.rect.height > 3
  /\ GridGet(out.given, widget.rect.col, widget.rect.row) = " "
  /\ out.value.grid = AsDrawn

\* the runs a horizontal or vertical line is cut into by its blanked cell
RunBefore ==
  IF widget.direction = "horizontal"
  THEN Cardinality({c \in 0..(grid.width - 1) :
         c >= widget.rect.col /\ \A k \in widget.rect.col..c :
           GridGet(out.given, k, widget.rect.row) = LINE_CHARS.horizontal})
  ELSE Cardinality({r \in 0..(grid.height - 1) :
         r >= widget.rect.row /\ \A k \in widget.rect.row..r :
           GridGet(out.given, widget.rect.col, k) = LINE_CHARS.vertical})

RunAfter ==
  (IF widget.direction = "horizontal" THEN widget.rect.width ELSE widget.rect.height)
    - RunBefore - 1

\* C10: line gap repair -- two runs of at least 2 line glyphs separated by
\* one blank cell give two Lines in plain detection; with repair at the
\* default threshold they give a single Line spanning both runs and the gap,
\* and exactly one recorded repair, the gap cell.
C10_LineGapRepair ==
  (Damaged("line") /\ RunBefore >= 2 /\ RunAfter >= 2) =>
    LET gapCol == IF widget.direction = "horizontal"
                  THEN widget.rect.col + RunBefore ELSE widget.rect.col
        gapRow == IF widget.direction = "horizontal"
                  THEN widget.rect.row ELSE widget.rect.row + RunBefore
        first == IF widget.direction = "horizontal"
                 THEN LineW(widget.rect.col, widget.rect.row, "horizontal", RunBefore)
                 ELSE LineW(widget.rect.col, widget.rect.row, "vertical", RunBefore)
        second == IF widget.direction = "horizontal"
                  THEN LineW(gapCol + 1, gapRow, "horizontal", RunAfter)
                  ELSE LineW(gapCol, gapRow + 1, "vertical", RunAfter)
    IN /\ ~opts.given => out.value.widgets = <<first, second>>
       /\ (opts.given /\ opts.repair /\ ~opts.hasThreshold) =>
            /\ out.value.widgets = <<widget>>
            /\ Len(out.value.repairs) = 1
            /\ out.value.repairs[1].col = gapCol
            /\ out.value.repairs[1].row = gapRow
            /\ out.value.grid = AsDrawn

\* C10 witness: a vertical line cut into two runs of 2 was repaired.
C10_Witness ==
  /\ Damaged("line")
  /\ widget.direction = "vertical"
  /\ RunBefore >= 2 /\ RunAfter >= 2
  /\ opts.given /\ opts.repair /\ ~opts.hasThreshold
  /\ Len(out.value.repairs) = 1

\* ─── render one widget on an empty grid, then detect ─────────────────────
\* grid size of the render session
RenderW == 7
RenderH == 3

\* the longest label or text content the render session uses
MaxToken == 2

\* single tokens: non-empty strings without a space, over a letter, the
\* horizontal glyph and the two brackets
TokenChars == {"x", LINE_CHARS.horizontal, "[", "]"}
Tokens == UNION {[1..n -> TokenChars] : n \in 1..MaxToken}

\* the widgets the render session stamps: each fits the grid by its rect;
\* boxes are at least 3x3, lines at least 2 long, buttons one row high and of
\* any width, texts one row high and as wide as their content
RenderedWidgets ==
  {w \in {BoxW(c, r, w, h) : c \in 0..(RenderW - 1), r \in 0..(RenderH - 1),
                              w \in 3..RenderW, h \in 3..RenderH}
          \cup {ButtonW(c, r, l, w) : c \in 0..(RenderW - 1), r \in 0..(RenderH - 1),
                                       l \in Tokens, w \in 1..RenderW}
          \cup {LineW(c, r, "horizontal", n) :
                  c \in 0..(RenderW - 1), r \in 0..(RenderH - 1), n \in 2..RenderW}
          \cup {LineW(c, r, "vertical", n) :
                  c \in 0..(RenderW - 1), r \in 0..(RenderH - 1), n \in 2..RenderH}
          \cup {TextW(c, r, t) : c \in 0..(RenderW - 1), r \in 0..(RenderH - 1),
                                  t \in Tokens} :
     Fits(w.rect, RenderW, RenderH)}

InitRender ==
  /\ grid = BlankDiagram(RenderW, RenderH)
  /\ edits = 0
  /\ widget = Null
  /\ opts = NoOptions
  /\ out = NoOutput

NextRender ==
  \/ \E w \in RenderedWidgets : Draw(w)
  \/ Detect(NoOptions)

SpecRender == InitRender /\ [][NextRender]_vars

\* detection of the rendered widget returned exactly one widget of the same
\* type and rect, with the same label for a button and content for a text
RoundTrips ==
  /\ Len(out.value.widgets) = 1
  /\ out.value.widgets[1].type = widget.type
  /\ out.value.widgets[1].rect = widget.rect
  /\ widget.type = "button" => out.value.widgets[1].label = widget.label
  /\ widget.type = "text" => out.value.widgets[1].content = widget.content

\* does the string hold character ch / two adjacent characters ch
Holds(str, ch) == \E i \in 1..Len(str) : str[i] = ch
HoldsPair(str, ch) == \E i \in 1..(Len(str) - 1) : str[i] = ch /\ str[i + 1] = ch

\* the widgets the round trip is stated for after correction: a button's
\* rect is at least label length + 4 wide and its label holds no bracket; a
\* text's content holds no two adjacent horizontal line glyphs
RoundTripDomain(w) ==
  /\ w.type = "button" =>
       /\ w.rect.width >= Len(w.label) + 4
       /\ ~Holds(w.label, "[") /\ ~Holds(w.label, "]")
  /\ w.type = "text" => ~HoldsPair(w.content, LINE_CHARS.horizontal)

MaxPlugins == 3

\* plugin lists: the built-in plugins, without repetition, in any order
PluginLists ==
  {l \in UNION {[1..n -> {DEFAULT_PLUGINS[k] : k \in 1..Len(DEFAULT_PLUGINS)}] :
                  n \in 0..MaxPlugins} :
     \A i, j \in 1..Len(l) : i # j => l[i] # l[j]}

\* { plugins } and { repair: true, plugins }
PluginOptions ==
  {Options(rep, FALSE, Conf(0, 1), TRUE, l) : rep \in BOOLEAN, l \in PluginLists}

NextPlugins ==
  \/ \E w \in PlacedWidgets : Draw(w)
  \/ \E o \in PluginOptions : Detect(o)

SpecPlugins == Init /\ [][NextPlugins]_vars

\* the calls of one pass are in ascending priority and are the listed
\* plugins, each once
InPriorityOrder(calls, list) ==
  /\ \A i, j \in 1..Len(calls) : i < j => calls[i].priority <= calls[j].priority
  /\ Len(calls) = Len(list)
  /\ \A k \in 1..Len(list) : Cardinality({i \in 1..Len(calls) : calls[i] = list[k]}) = 1

\* C8: priority determinism -- the detection pass, and the repair pass when
\* it runs, call each listed plugin's detect once, in ascending priority,
\* whatever the order of the list; priorities [20, 10, 30] are visited as
\* [10, 20, 30].
C8_PriorityOrder ==
  (Called /\ opts.hasPlugins) =>
    /\ InPriorityOrder(out.detectCalls, opts.plugins)
    /\ IF opts.repair THEN InPriorityOrder(out.repairCalls, opts.plugins)
       ELSE out.repairCalls = <<>>
    /\ opts.plugins = <<ButtonParserPlugin, BoxParserPlugin, LineParserPlugin>> =>
         out.detectCalls = <<BoxParserPlugin, ButtonParserPlugin, LineParserPlugin>>

\* C8 witness: the list [20, 10, 30] went through both passes as [10, 20, 30].
C8_Witness ==
  /\ Called /\ opts.hasPlugins /\ opts.repair
  /\ opts.plugins = <<ButtonParserPlugin, BoxParserPlugin, LineParserPlugin>>
  /\ out.repairCalls = <<BoxParserPlugin, ButtonParserPlugin, LineParserPlugin>>
  /\ out.detectCalls = <<BoxParserPlugin, ButtonParserPlugin, LineParserPlugin>>

\* ─── one widget drawn strictly inside a box ──────────────────────────────
\* grid size of the nesting session
NestW == 7
NestH == 5

\* the enclosing boxes and the widgets drawn inside them
NestWidgets ==
  {w \in {BoxW(c, r, w, h) : c \in 0..(NestW - 1), r \in 0..(NestH - 1),
                              w \in 3..NestW, h \in 3..NestH}
          \cup {ButtonW(c, r, l, Len(l) + 4) :
                  c \in 0..(NestW - 1), r \in 0..(NestH - 1), l \in Labels}
          \cup {LineW(c, r, "horizontal", n) :
                  c \in 0..(NestW - 1), r \in 0..(NestH - 1), n \in 2..NestW}
          \cup {LineW(c, r, "vertical", n) :
                  c \in 0..(NestW - 1), r \in 0..(NestH - 1), n \in 2..NestH}
          \cup {TextW(c, r, l) : c \in 0..(NestW - 1), r \in 0..(NestH - 1), l \in Labels} :
     Fits(w.rect, NestW, NestH)}

InitNest ==
  /\ grid = BlankDiagram(NestW, NestH)
  /\ edits = 0
  /\ widget = Null
  /\ opts = NoOptions
  /\ out = NoOutput

\* renderWidget(grid, w) with w strictly inside the box drawn first
DrawInside(w) ==
  /\ out = NoOutput
  /\ widget # Null
  /\ edits = 0
  /\ StrictlyInside(w.rect, widget.rect)
  /\ grid' = renderWidget(grid, w)
  /\ edits' = 1
  /\ UNCHANGED <<widget, opts, out>>

NextNest ==
  \/ \E w \in {b \in NestWidgets : b.type = "box"} : Draw(w)
  \/ \E w \in NestWidgets : DrawInside(w)
  \/ Detect(NoOptions)

SpecNest == InitNest /\ [][NextNest]_vars

\* the cells of the top and bottom rows and left and right columns of a rect
OnBorder(rect) ==
  {cell \in (rect.col..(rect.col + rect.width - 1))
              \X (rect.row..(rect.row + rect.height - 1)) :
     \/ cell[1] = rect.col \/ cell[1] = rect.col + rect.width - 1
     \/ cell[2] = rect.row \/ cell[2] = rect.row + rect.height - 1}

\* the grid with the border cells of a rect blanked
RECURSIVE BlankCells(_, _)
BlankCells(g, cells) ==
  IF cells = {} THEN g
  ELSE LET cell == CHOOSE x \in cells : TRUE
       IN BlankCells(GridSet(g, cell[1], cell[2], " "), cells \ {cell})

\* C9: border-only box claiming -- every accepted Box claims exactly its
\* border cells, and what lies strictly inside a detected box is returned
\* exactly as detection returns it on the grid without that box.
C9_BorderOnlyClaiming ==
  (Called /\ widget # Null) =>
    /\ \A i \in 1..Len(out.accepted) :
         out.accepted[i].widget.type = "box" =>
           out.accepted[i].cells = OnBorder(out.accepted[i].widget.rect)
    /\ LET without == BlankCells(out.given, OnBorder(widget.rect))
       IN out.value.widgets = <<widget>> \o detectWidgets(without, NoOptions).value.widgets

\* C9 witness: a button drawn inside a box came back next to the box.
C9_Witness ==
  /\ Called /\ widget # Null /\ edits = 1
  /\ Len(out.value.widgets) = 2
  /\ out.value.widgets[1] = widget
  /\ out.value.widgets[2].type = "button"
  /\ StrictlyInside(out.value.widgets[2].rect, widget.rect)

\* ─── buttons ─────────────────────────────────────────────────────────────
\* the characters of the returned grid (the input in plain mode) under a rect row
DetectedOn == IF opts.given THEN out.value.grid ELSE out.given

\* C11: button full match -- every returned Button starts at "[" and a
\* space, ends at the first " ]" of its row, carries the interior trimmed of
\* surrounding whitespace as its label, and that label is never empty.
C11_ButtonFullMatch ==
  Called =>
    \A i \in 1..Len(out.value.widgets) :
      LET w == out.value.widgets[i]
          last == w.rect.col + w.rect.width - 1
      IN w.type = "button" =>
           /\ GridGet(DetectedOn, w.rect.col, w.rect.row) = "["
           /\ GridGet(DetectedOn, w.rect.col + 1, w.rect.row) = " "
           /\ GridGet(DetectedOn, last - 1, w.rect.row) = " "
           /\ GridGet(DetectedOn, last, w.rect.row) = "]"
           /\ \A c \in (w.rect.col + 2)..(last - 2) :
                ~(GridGet(DetectedOn, c, w.rect.row) = " "
                  /\ GridGet(DetectedOn, c + 1, w.rect.row) = "]")
           /\ w.label = Trim(RowSlice(DetectedOn, w.rect.row, w.rect.col + 2, last - 1))
           /\ w.label # <<>>

\* ─── diagnostic result ───────────────────────────────────────────────────
\* C12: diagnostic result consistency -- the returned grid is the input
\* object when no repair was applied and a separate clone otherwise; the
\* repairs list is empty when the returned grid has the content of the
\* input, and every entry names a cell that was blank in the input and holds
\* the entry's expected character in the returned grid.
C12_DiagnosticConsistency ==
  (Called /\ opts.given) =>
    /\ out.writes = {} => out.gridIsInput /\ out.value.grid = out.given
    /\ out.writes # {} => ~out.gridIsInput
    /\ out.value.grid.cells = out.given.cells => out.value.repairs = <<>>
    /\ \A k \in 1..Len(out.value.repairs) :
         LET d == out.value.repairs[k]
         IN /\ GridGet(out.given, d.col, d.row) = " "
            /\ GridGet(out.value.grid, d.col, d.row) = d.expected

\* ─── entry modes: a damaged drawing detected with each kind of options ───
\* no options, {}, { repairThreshold: 0.5 }, { repair: true }
ModeOptions ==
  {NoOptions,
   Options(FALSE, FALSE, Conf(0, 1), FALSE, <<>>),
   Options(FALSE, TRUE, Conf(1, 2), FALSE, <<>>),
   Options(TRUE, FALSE, Conf(0, 1), FALSE, <<>>)}

NextModes ==
  \/ \E w \in DrawnWidgets : Draw(w)
  \/ \E c \in 0..(RepairW - 1), r \in 0..(RepairH - 1) : Erase(c, r)
  \/ \E o \in ModeOptions : Detect(o)

SpecModes == InitRepair /\ [][NextModes]_vars

C14_MinimumSizes ==
  Called =>
    \A i \in 1..Len(out.value.widgets) :
      LET w == out.value.widgets[i]
      IN /\ w.rect.width >= 1 /\ w.rect.height >= 1
         /\ w.type = "box" => w.rect.width >= 3 /\ w.rect.height >= 3
         /\ w.type = "line" =>
              IF w.direction = "horizontal"
              THEN w.rect.width >= 2 /\ w.rect.height = 1
              ELSE w.rect.height >= 2 /\ w.rect.width = 1
         /\ w.type \in {"button", "text"} => w.rect.height = 1

\* C14 witness: a call returned a Box of the smallest size, 3x3, together
\* with a horizontal Line of the smallest length, 2.
C14_Witness ==
  /\ Called
  /\ \E i \in 1..Len(out.value.widgets) :
       LET w == out.value.widgets[i]
       IN w.type = "box" /\ w.rect.width = 3 /\ w.rect.height = 3
  /\ \E i \in 1..Len(out.value.widgets) :
       LET w == out.value.widgets[i]
       IN w.type = "line" /\ w.direction = "horizontal" /\ w.rect.width = 2

\* ─── grid.ts: rectangles and text ────────────────────────────────────────
\* the loops of fillRect at row r, column c
RECURSIVE FillFrom(_, _, _, _, _, _, _, _)
FillFrom(g, col, row, width, height, char, r, c) ==
  IF ~(r < row + height) THEN g
  ELSE IF ~(c < col + width) THEN FillFrom(g, col, row, width, height, char, r + 1, col)
  ELSE FillFrom(GridSet(g, c, r, char), col, row, width, height, char, r, c + 1)

fillRect(g, col, row, width, height, char) ==
  FillFrom(g, col, row, width, height, char, row, col)

clearRect(g, col, row, width, height) == fillRect(g, col, row, width, height, " ")

\* Array.prototype.join("\n")
RECURSIVE Join(_)
Join(lines) ==
  IF Len(lines) = 0 THEN <<>>
  ELSE IF Len(lines) = 1 THEN lines[1]
  ELSE lines[1] \o <<"\n">> \o Join(Tail(lines))

\* String.prototype.split("\n"): the lines of text from position i on, the
\* line being read so far held in `line`
RECURSIVE SplitFrom(_, _, _)
SplitFrom(text, i, line) ==
  IF i > Len(text) THEN <<line>>
  ELSE IF text[i] = "\n" THEN <<line>> \o SplitFrom(text, i + 1, <<>>)
  ELSE SplitFrom(text, i + 1, Append(line, text[i]))

Split(text) == SplitFrom(text, 1, <<>>)

\* a serialization that keeps the trailing blank rows
KeepEmptyLines(lines) == lines

\* while (lines.length > 0 && lines[lines.length - 1] === "") lines.pop()
RECURSIVE PopEmptyLines(_)
PopEmptyLines(lines) ==
  IF Len(lines) > 0 /\ lines[Len(lines)] = <<>>
  THEN PopEmptyLines(SubSeq(lines, 1, Len(lines) - 1))
  ELSE lines

\* Grid.toString
toString(g) ==
  LET lines == [r \in 1..g.height |-> TrimEnd(RowSlice(g, r - 1, 0, g.width))]
  IN Join(g.comments \o PopEmptyLines(lines)) \o <<"\n">>

\* the index of the first line that is not a comment, counted from 0
RECURSIVE ContentStart(_, _)
ContentStart(allLines, i) ==
  IF i < Len(allLines)
     /\ LET trimmed == TrimStart(allLines[i + 1])
        IN Len(trimmed) > 0 /\ trimmed[1] = "#"
  THEN ContentStart(allLines, i + 1)
  ELSE i

\* contentLines.reduce((max, line) => Math.max(max, line.length), 0)
RECURSIVE MaxLineWidth(_)
MaxLineWidth(lines) ==
  IF Len(lines) = 0 THEN 0 ELSE Max(MaxLineWidth(Tail(lines)), Len(lines[1]))

\* the loop that sets the cells of row r and the rows after it
RECURSIVE SetLines(_, _, _)
SetLines(g, contentLines, r) ==
  IF ~(r < Len(contentLines)) THEN g
  ELSE SetLines(WriteString(g, 0, r, contentLines[r + 1]), contentLines, r + 1)

\* Grid.fromString
fromString(text, minWidth, minHeight) ==
  LET allLines == Split(text)
      contentStart == ContentStart(allLines, 0)
      comments == SubSeq(allLines, 1, contentStart)
      contentLines == SubSeq(allLines, contentStart + 1, Len(allLines))
      width == Max(minWidth, MaxLineWidth(contentLines))
      height == Max(minHeight, Len(contentLines))
  IN SetLines([NewGrid(width, height) EXCEPT !.comments = comments], contentLines, 0)

\* ─── saving and loading: a small diagram is edited, saved, and loaded ───
SaveW == 3
SaveH == 2

\* the characters typed into cells: a space, a letter, the comment mark, a tab
SavedChars == {" ", "x", "#", "\t"}

\* the minimum sizes given to fromString
MinWidths == {1, SaveW, SaveW + 1}
MinHeights == {1, SaveH, SaveH + 1}

InitText ==
  /\ grid \in {NewGrid(SaveW, SaveH), BlankDiagram(SaveW, SaveH)}
  /\ edits = 0
  /\ widget = Null
  /\ opts = NoOptions
  /\ out = NoOutput

\* grid.set(col, row, ch)
EditCell(col, row, ch) ==
  /\ out = NoOutput
  /\ grid' = GridSet(grid, col, row, ch)
  /\ UNCHANGED <<edits, widget, opts, out>>

\* text = grid.toString()
Save ==
  /\ out = NoOutput
  /\ out' = [type |-> "text", text |-> toString(grid)]
  /\ UNCHANGED <<grid, edits, widget, opts>>

\* grid = Grid.fromString(text, minWidth, minHeight)
Load(minWidth, minHeight) ==
  /\ out.type = "text"
  /\ grid' = fromString(out.text, minWidth, minHeight)
  /\ out' = [type |-> "loaded", text |-> out.text, saved |-> grid,
             minWidth |-> minWidth, minHeight |-> minHeight]
  /\ UNCHANGED <<edits, widget, opts>>

NextText ==
  \/ \E c \in 0..(SaveW - 1), r \in 0..(SaveH - 1), ch \in SavedChars : EditCell(c, r, ch)
  \/ Save
  \/ \E mw \in MinWidths, mh \in MinHeights : Load(mw, mh)

SpecText == InitText /\ [][NextText]_vars

\* C15: lossless grid round trip -- for any grid g, the grid loaded from
\* g.toString() with g's width and height as minimum sizes has the width,
\* the height, the comments and every cell of g.
C15_LosslessRoundTrip ==
  (out.type = "loaded" /\ out.minWidth = out.saved.width /\ out.minHeight = out.saved.height) =>
    /\ grid.width = out.saved.width
    /\ grid.height = out.saved.height
    /\ grid.comments = out.saved.comments
    /\ grid.cells = out.saved.cells

\* C16: save is a normal form -- for every text t produced by toString and
\* any minimum sizes, fromString(t, minWidth, minHeight).toString() is t,
\* character for character.
C16_SaveNormalForm ==
  out.type = "loaded" => toString(grid) = out.text

\* C16 witness: a diagram with a comment line, a row that ends in white space
\* and a last row that is not blank was saved and loaded into a grid with one
\* row more than the saved one.
C16_Witness ==
  /\ out.type = "loaded"
  /\ out.saved.comments # <<>>
  /\ GridGet(out.saved, 0, 0) = "x"
  /\ GridGet(out.saved, SaveW - 1, 0) = "\t"
  /\ GridGet(out.saved, 1, SaveH - 1) = "#"
  /\ grid.height = out.saved.height + 1

\* ─── grid calls: set, writeString, fillRect and clearRect at coordinates
\* that reach past every side of a small grid ───
MaxCalls == 2

\* columns and rows one cell outside the grid on every side
CallCols == (0 - 1)..SaveW
CallRows == (0 - 1)..SaveH

\* the characters passed to set and fillRect; "" is the empty string
CallChars == {"x", ""}

\* the strings passed to writeString: shorter and longer than a row
CallStrings == {<<"x", "#">>, <<"x", "#", "x", "#", "x">>}

\* the widths and heights passed to fillRect and clearRect
CallWidths == {2, SaveW + 2}
CallHeights == {1, SaveH + 2}

\* the call is made: `widget` keeps the call and its target rect, `out` the
\* grid before the call
Call(after, name, target) ==
  /\ edits < MaxCalls
  /\ grid' = after
  /\ edits' = edits + 1
  /\ widget' = [type |-> name, rect |-> target]
  /\ out' = [type |-> "before", grid |-> grid]
  /\ UNCHANGED opts

NextGrid ==
  \/ \E c \in CallCols, r \in CallRows, ch \in CallChars :
       Call(GridSet(grid, c, r, ch), "set", Rect(c, r, 1, 1))
  \/ \E c \in CallCols, r \in CallRows, str \in CallStrings :
       Call(WriteString(grid, c, r, str), "writeString", Rect(c, r, Len(str), 1))
  \/ \E c \in CallCols, r \in CallRows, w \in CallWidths, h \in CallHeights :
       Call(fillRect(grid, c, r, w, h, "x"), "fillRect", Rect(c, r, w, h))
  \/ \E c \in CallCols, r \in CallRows, w \in CallWidths, h \in CallHeights :
       Call(clearRect(grid, c, r, w, h), "clearRect", Rect(c, r, w, h))

SpecGrid == InitText /\ [][NextGrid]_vars

\* C17: grid bounds safety -- get returns a space at every coordinate outside
\* the grid; set, writeString and fillRect add no cell for the part of their
\* target that is out of range and change no in-range cell outside their
\* target.
C17_BoundsSafety ==
  /\ \A c \in CallCols, r \in CallRows :
       ~InBounds(grid, c, r) => GridGet(grid, c, r) = " "
  /\ out.type = "before" =>
       /\ grid.width = out.grid.width
       /\ grid.height = out.grid.height
       /\ Len(grid.cells) = grid.width * grid.height
       /\ grid.comments = out.grid.comments
       /\ \A c \in 0..(grid.width - 1), r \in 0..(grid.height - 1) :
            Key(c, r) \notin rectCells(widget.rect) =>
              GridGet(grid, c, r) = GridGet(out.grid, c, r)

\* C17 witness: a fillRect whose target starts left of and above the grid
\* and ends inside it filled its in-range part and left a cell written by an
\* earlier call, outside the target, as it was.
C17_Witness ==
  /\ out.type = "before"
  /\ widget.type = "fillRect"
  /\ widget.rect = Rect(0 - 1, 0 - 1, 2, SaveH + 2)
  /\ GridGet(out.grid, 0, 0) = " "
  /\ GridGet(grid, 0, 0) = "x" /\ GridGet(grid, 0, SaveH - 1) = "x"
  /\ GridGet(grid, SaveW - 1, 0) = "#"

\* ─── parser.ts: widgetAt, widgetsInside ──────────────────────────────────
\* the first widget of the list whose rect holds the point, whatever its area
RECURSIVE widgetAtFirst(_, _, _)
widgetAtFirst(widgets, col, row) ==
  IF Len(widgets) = 0 THEN Null
  ELSE LET r == widgets[1].rect
       IN IF col >= r.col /\ col < r.col + r.width /\ row >= r.row /\ row < r.row + r.height
          THEN widgets[1]
          ELSE widgetAtFirst(Tail(widgets), col, row)

\* the loop of widgetAt at the i-th widget; bestArea is the area of best, and
\* Infinity while best is null
RECURSIVE WidgetAtLoop(_, _, _, _, _)
WidgetAtLoop(widgets, col, row, i, best) ==
  IF i > Len(widgets) THEN best
  ELSE LET r == widgets[i].rect
           area == r.width * r.height
       IN IF col >= r.col /\ col < r.col + r.width /\ row >= r.row /\ row < r.row + r.height
             /\ (best = Null \/ area < best.rect.width * best.rect.height)
          THEN WidgetAtLoop(widgets, col, row, i + 1, widgets[i])
          ELSE WidgetAtLoop(widgets, col, row, i + 1, best)

widgetAt(widgets, col, row) == WidgetAtLoop(widgets, col, row, 1, Null)

\* widgets.filter(...)
widgetsInside(widgets, container) ==
  SelectSeq(widgets, LAMBDA w : StrictlyInside(w.rect, container))

\* ─── selection: hit tests and containment over short widget lists ───
SelW == 4
SelH == 4
MaxListed == 2

\* every rect that fits in the SelW x SelH area
SelectRects ==
  {rect \in [col : 0..(SelW - 1), row : 0..(SelH - 1),
             width : 1..SelW, height : 1..SelH] :
     rect.col + rect.width <= SelW /\ rect.row + rect.height <= SelH}

\* the widget lists handed to widgetAt and widgetsInside
WidgetLists ==
  UNION {[1..n -> {BoxW(rect.col, rect.row, rect.width, rect.height) : rect \in SelectRects}] :
           n \in 0..MaxListed}

InitSelect ==
  /\ grid = NewGrid(SelW, SelH)
  /\ edits = 0
  /\ widget = Null
  /\ opts = NoOptions
  /\ out \in {[type |-> "widgets", widgets |-> ws] : ws \in WidgetLists}

\* widgetAt(widgets, col, row)
HitTest(col, row) ==
  /\ out.type = "widgets"
  /\ out' = [type |-> "hit", widgets |-> out.widgets, col |-> col, row |-> row,
             result |-> widgetAt(out.widgets, col, row)]
  /\ UNCHANGED <<grid, edits, widget, opts>>

\* widgetsInside(widgets, container)
SelectInside(container) ==
  /\ out.type = "widgets"
  /\ out' = [type |-> "inside", widgets |-> out.widgets, container |-> container,
             result |-> widgetsInside(out.widgets, container)]
  /\ UNCHANGED <<grid, edits, widget, opts>>

\* the point is any cell of the area or one just past its right or bottom
\* side; the container is the whole area or the rect of a listed widget
NextSelect ==
  \/ \E c \in 0..SelW, r \in 0..SelH : HitTest(c, r)
  \/ \E container \in {Rect(0, 0, SelW, SelH)}
                        \cup {out.widgets[i].rect : i \in 1..Len(out.widgets)} :
       SelectInside(container)

SpecSelect == InitSelect /\ [][NextSelect]_vars

\* the widgets of the list whose half-open rect holds the point
Holding(ws, col, row) ==
  {i \in 1..Len(ws) :
     /\ ws[i].rect.col <= col /\ col < ws[i].rect.col + ws[i].rect.width
     /\ ws[i].rect.row <= row /\ row < ws[i].rect.row + ws[i].rect.height}

Area(w) == w.rect.width * w.rect.height

\* C18: point hit-test -- widgetAt returns null when no widget's half-open
\* rect holds the point; otherwise it returns a widget that holds the point
\* with minimal area, the first in the list among those of minimal area.
C18_PointHitTest ==
  out.type = "hit" =>
    LET ws == out.widgets
        holding == Holding(ws, out.col, out.row)
    IN IF holding = {} THEN out.result = Null
       ELSE \E i \in holding :
              /\ out.result = ws[i]
              /\ \A j \in holding : Area(ws[i]) <= Area(ws[j])
              /\ \A j \in holding : Area(ws[j]) = Area(ws[i]) => i <= j

\* C18 witness: the point lies in a 3x3 widget listed first and in a 1x2
\* widget listed second, and the second one is returned.
C18_Witness ==
  /\ out.type = "hit"
  /\ out.widgets = <<BoxW(0, 0, 3, 3), BoxW(1, 1, 1, 2)>>
  /\ out.col = 1 /\ out.row = 2
  /\ out.result = BoxW(1, 1, 1, 2)

\* the widgets of the list strictly inside the container on all four sides
Contained(ws, container) ==
  {i \in 1..Len(ws) :
     /\ ws[i].rect.col > container.col
     /\ ws[i].rect.row > container.row
     /\ ws[i].rect.col + ws[i].rect.width < container.col + container.width
     /\ ws[i].rect.row + ws[i].rect.height < container.row + container.height}

\* C19: containment -- widgetsInside returns, in list order, exactly the
\* widgets whose rect lies strictly inside the container on all four sides;
\* a widget touching or equal to the container is not returned.
C19_Containment ==
  out.type = "inside" =>
    LET ws == out.widgets
        contained == Contained(ws, out.container)
    IN /\ Len(out.result) = Cardinality(contained)
       /\ \A i \in contained :
            out.result[Cardinality({j \in contained : j <= i})] = ws[i]
       /\ \A k \in 1..Len(out.result) : out.result[k].rect # out.container

\* C19 witness: the container is the first listed widget, the second one lies
\* strictly inside it, and only the second one is returned.
C19_Witness ==
  /\ out.type = "inside"
  /\ out.widgets = <<BoxW(0, 0, 4, 4), BoxW(1, 1, 2, 1)>>
  /\ out.container = Rect(0, 0, 4, 4)
  /\ out.result = <<BoxW(1, 1, 2, 1)>>

\* ─── exact boxes ───
\* the grid holds the corner glyphs at the corners of the rect, the
\* horizontal glyph along the rest of its top and bottom rows and the
\* vertical glyph along the rest of its left and right columns
ExactBox(g, rect) ==
  LET right == rect.col + rect.width - 1
      bottom == rect.row + rect.height - 1
  IN /\ GridGet(g, rect.col, rect.row) = "p"
     /\ GridGet(g, right, rect.row) = "q"
     /\ GridGet(g, rect.col, bottom) = "b"
     /\ GridGet(g, right, bottom) = "d"
     /\ \A c \in (rect.col + 1)..(right - 1) :
          GridGet(g, c, rect.row) = "-" /\ GridGet(g, c, bottom) = "-"
     /\ \A r \in (rect.row + 1)..(bottom - 1) :
          GridGet(g, rect.col, r) = "|" /\ GridGet(g, right, r) = "|"

\* the rects of at least 3x3 that lie in the grid
BoxRects(g) ==
  {rect \in [col : 0..(g.width - 1), row : 0..(g.height - 1),
             width : 3..g.width, height : 3..g.height] :
     rect.col + rect.width <= g.width /\ rect.row + rect.height <= g.height}

\* C20: exact box recognition -- with the default plugins a Box with rect R
\* of at least 3x3 is in the result for grid G if and only if G holds the
\* four corner glyphs at R's corners, the horizontal glyph at every other
\* cell of R's top and bottom rows and the vertical glyph at every other cell
\* of R's left and right columns.
C20_ExactBoxRecognition ==
  Called =>
    /\ \A i \in 1..Len(out.value.widgets) :
         out.value.widgets[i].type = "box" =>
           /\ out.value.widgets[i].rect \in BoxRects(DetectedOn)
           /\ ExactBox(DetectedOn, out.value.widgets[i].rect)
    /\ \A rect \in BoxRects(DetectedOn) :
         ExactBox(DetectedOn, rect) =>
           \E i \in 1..Len(out.value.widgets) :
             out.value.widgets[i] = [type |-> "box", rect |-> rect]

\* C20 witness: plain detection returned a Box while another rect of the
\* grid has its left side and top row drawn but not its top-right corner,
\* and is not returned.
C20_Witness ==
  /\ Called /\ ~opts.given
  /\ \E i \in 1..Len(out.value.widgets) : out.value.widgets[i].type = "box"
  /\ \E rect \in BoxRects(out.given) :
       /\ GridGet(out.given, rect.col, rect.row) = "p"
       /\ GridGet(out.given, rect.col + 1, rect.row) = "-"
       /\ GridGet(out.given, rect.col, rect.row + rect.height - 1) = "b"
       /\ GridGet(out.given, rect.col + rect.width - 1, rect.row) # "q"
       /\ \A i \in 1..Len(out.value.widgets) : out.value.widgets[i].rect # rect

\* ─── stamping: renderWidget with widgets built by the editor, among them
\* widgets whose rect does not fit their data (a resized button or text, a
\* box below 3x3) ───
StampW == 5
StampH == 4
MaxStamps == 2

StampedWidgets ==
  {[type |-> "box", rect |-> Rect(c, r, w, h)] :
     c \in 0..1, r \in 0..1, w \in 1..4, h \in 2..3}
  \cup {[type |-> "box", label |-> <<"x", "x">>, rect |-> Rect(c, r, w, 3)] :
          c \in 0..1, r \in 0..1, w \in 3..4}
  \cup {ButtonW(c, r, label, w) :
          c \in 0..1, r \in 0..1, label \in {<<"x">>, <<"x", "x">>}, w \in {2, 5}}
  \cup {[type |-> "text", content |-> content, rect |-> Rect(c, r, w, 1)] :
          c \in 0..1, r \in 0..1, content \in {<<"x">>, <<"x", "x">>}, w \in 1..2}
  \cup {LineW(c, r, direction, length) :
          c \in 0..1, r \in 0..1, direction \in {"horizontal", "vertical"},
          length \in {1, 3}}

InitStamp ==
  /\ grid = NewGrid(StampW, StampH)
  /\ edits = 0
  /\ widget = Null
  /\ opts = NoOptions
  /\ out = NoOutput

\* renderWidget(grid, w).  The call returns normally for every widget:
\* render.ts has no throw, and set and writeString ignore out-of-range cells.
Stamp(w) ==
  /\ edits < MaxStamps
  /\ grid' = renderWidget(grid, w)
  /\ edits' = edits + 1
  /\ widget' = w
  /\ out' = [type |-> "rendered", before |-> grid, error |-> FALSE]
  /\ UNCHANGED opts

NextStamp == \E w \in StampedWidgets : Stamp(w)

SpecStamp == InitStamp /\ [][NextStamp]_vars

\* C21: rendering fails fast -- renderWidget given a Box whose rect is
\* smaller than 3x3 reports an error and stamps nothing onto the grid.
C21_RenderFailsFast ==
  (out.type = "rendered" /\ widget.type = "box"
     /\ (widget.rect.width < 3 \/ widget.rect.height < 3)) =>
    out.error /\ grid = out.before

ShapeCells(ws) ==
  UNION {IF ws[i].type = "box" THEN borderCells(ws[i].rect)
         ELSE IF ws[i].type = "text" THEN {}
         ELSE rectCells(ws[i].rect) : i \in 1..Len(ws)}

\* the cell is in the grid, not a space and not claimed by a shape
FreeCell(g, ws, c, r) ==
  /\ InBounds(g, c, r)
  /\ GridGet(g, c, r) # " "
  /\ Key(c, r) \notin ShapeCells(ws)

\* the maximal horizontal runs of free cells, as <<row, first, last>>
FreeRuns(g, ws) ==
  {run \in (0..(g.height - 1)) \X (0..(g.width - 1)) \X (0..(g.width - 1)) :
     /\ run[2] <= run[3]
     /\ \A c \in run[2]..run[3] : FreeCell(g, ws, c, run[1])
     /\ ~FreeCell(g, ws, run[2] - 1, run[1])
     /\ ~FreeCell(g, ws, run[3] + 1, run[1])}

SingleGlyphs(g) ==
  {cell \in AllCells(g) :
     \/ /\ GridGet(g, cell[1], cell[2]) = "-"
        /\ GridGet(g, cell[1] - 1, cell[2]) # "-"
        /\ GridGet(g, cell[1] + 1, cell[2]) # "-"
     \/ /\ GridGet(g, cell[1], cell[2]) = "|"
        /\ GridGet(g, cell[1], cell[2] - 1) # "|"
        /\ GridGet(g, cell[1], cell[2] + 1) # "|"}

\* C23: isolated single line glyphs -- a run of exactly one horizontal or one
\* vertical line glyph is in the cells of no Line candidate, neither a
\* partial one of the repair pass nor an accepted one, with or without
\* repair, and the cell is returned in a Text widget.
C23_SingleGlyphNeverLine ==
  Called =>
    /\ \A k \in 1..Len(out.partials) :
         out.partials[k].widget.type = "line" =>
           out.partials[k].cells \cap SingleGlyphs(out.given) = {}
    /\ \A k \in 1..Len(out.accepted) :
         out.accepted[k].widget.type = "line" =>
           out.accepted[k].cells \cap SingleGlyphs(DetectedOn) = {}
    /\ \A cell \in SingleGlyphs(out.given) :
         \E i \in 1..Len(out.value.widgets) :
           /\ Key(cell[1], cell[2]) \in rectCells(out.value.widgets[i].rect)
           /\ out.value.widgets[i].type \in {"text", "box", "button"}

\* ─── partial box candidates ───
\* the glyph a box with this rect has at a border cell
ExpectedGlyph(rect, c, r) ==
  LET right == rect.col + rect.width - 1
      bottom == rect.row + rect.height - 1
  IN IF c = rect.col /\ r = rect.row THEN "p"
     ELSE IF c = right /\ r = rect.row THEN "q"
     ELSE IF c = rect.col /\ r = bottom THEN "b"
     ELSE IF c = right /\ r = bottom THEN "d"
     ELSE IF r = rect.row \/ r = bottom THEN "-"
     ELSE "|"

\* the border cells of the rect that hold the glyph expected there
MatchedCells(g, rect) ==
  {cell \in borderCells(rect) :
     GridGet(g, cell[1], cell[2]) = ExpectedGlyph(rect, cell[1], cell[2])}

\* the candidates of one call of the Box plugin's detect on the grid passed
BoxCandidates == BoxDetect(createContext(out.given))

\* C24: partial box candidates -- every candidate of confidence below 1.0
\* returned by one call of the Box plugin's detect has at least one defect, a
\* confidence of (border cells holding the expected glyph / border cells)
\* minus 0.1 per defect whose actual character is not a space, in [0.5, 1),
\* and a rect different from that of every other candidate of the call.
C24_PartialBoxCandidates ==
  Called =>
    \A k \in 1..Len(BoxCandidates) :
      LET cand == BoxCandidates[k]
          total == Cardinality(borderCells(cand.widget.rect))
          matched == Cardinality(MatchedCells(out.given, cand.widget.rect))
          nonSpace == Cardinality({i \in 1..Len(cand.defects) : cand.defects[i].actual # " "})
      IN ~ConfGE(cand.confidence, ConfOne) =>
           /\ Len(cand.defects) >= 1
           /\ cand.confidence.num * 10 * total
                = (10 * matched - nonSpace * total) * cand.confidence.den
           /\ ConfGE(cand.confidence, Conf(1, 2))
           /\ \A j \in 1..Len(BoxCandidates) :
                j # k => BoxCandidates[j].widget.rect # cand.widget.rect

\* C24 witness: the call returned a partial candidate with a defect over a
\* non-space character, whose confidence is below its matched share.
C24_Witness ==
  /\ Called
  /\ \E k \in 1..Len(BoxCandidates) :
       /\ ~ConfGE(BoxCandidates[k].confidence, ConfOne)
       /\ \E i \in 1..Len(BoxCandidates[k].defects) :
            BoxCandidates[k].defects[i].actual # " "

\* ─── result order ───
\* the place of a widget type in the order of the default plugins
TypeRank(type) ==
  CASE type = "box" -> 1 [] type = "button" -> 2 [] type = "line" -> 3 [] type = "text" -> 4

WidgetCells(ws) ==
  UNION {IF ws[i].type = "box" THEN borderCells(ws[i].rect) ELSE rectCells(ws[i].rect) :
           i \in 1..Len(ws)}

\* C26: coverage -- with the default plugins every non-space cell of the grid
\* used for final detection lies in the claimed cells of at least one
\* returned widget.
C26_Coverage ==
  Called =>
    \A cell \in AllCells(DetectedOn) :
      GridGet(DetectedOn, cell[1], cell[2]) # " " =>
        Key(cell[1], cell[2]) \in WidgetCells(out.value.widgets)

\* C26 witness: the grid holds a Box and, outside it, a non-space cell in the
\* last column, which a Text that ends at the grid's right side covers.
C26_Witness ==
  /\ Called
  /\ OfType(out.value.widgets, "box") # {}
  /\ \E i \in OfType(out.value.widgets, "text") :
       out.value.widgets[i].rect.col + out.value.widgets[i].rect.width = DetectedOn.width

C28_RepairFootprint ==
  RepairEnabled =>
    /\ out.value.grid.width = out.given.width
    /\ out.value.grid.height = out.given.height
    /\ out.value.grid.comments = out.given.comments
    /\ \A cell \in AllCells(out.given) :
         GridGet(out.value.grid, cell[1], cell[2]) # GridGet(out.given, cell[1], cell[2]) =>
           /\ GridGet(out.given, cell[1], cell[2]) = " "
           /\ \E k \in 1..Len(out.value.repairs) :
                /\ out.value.repairs[k].col = cell[1]
                /\ out.value.repairs[k].row = cell[2]
                /\ out.value.repairs[k].expected = GridGet(out.value.grid, cell[1], cell[2])
    /\ \A w \in out.writes : w.before = " "
    /\ \A w1, w2 \in out.writes : (w1.col = w2.col /\ w1.row = w2.row) => w1 = w2

\* C28 witness: a call wrote a blank cell of the input and lists more
\* repairs than it wrote cells.
C28_Witness ==
  /\ RepairEnabled
  /\ out.writes # {}
  /\ out.value.grid # out.given
  /\ Len(out.value.repairs) > Cardinality(out.writes)

\* ─── a drawing damaged twice: draw a box or a line, blank two cells ─────
\* the number of cells blanked after the drawing
MaxErased == 2

\* repair with the default threshold and with a threshold of 0.85
HealOptions ==
  {Options(TRUE, FALSE, Conf(0, 1), FALSE, <<>>),
   Options(TRUE, TRUE, Conf(85, 100), FALSE, <<>>)}

\* grid.set(col, row, " ") on a cell of the drawn widget that still holds
\* its glyph
Blank(col, row) ==
  /\ out = NoOutput
  /\ widget # Null
  /\ edits < MaxErased
  /\ Key(col, row) \in DrawnCells(widget)
  /\ GridGet(grid, col, row) # " "
  /\ grid' = GridSet(grid, col, row, " ")
  /\ edits' = edits + 1
  /\ UNCHANGED <<widget, opts, out>>

NextHeal ==
  \/ \E w \in DrawnWidgets : Draw(w)
  \/ \E c \in 0..(RepairW - 1), r \in 0..(RepairH - 1) : Blank(c, r)
  \/ \E o \in HealOptions : Detect(o)

SpecHeal == InitRepair /\ [][NextHeal]_vars

\* the call repeated on the grid the first call returned, same options
Again == detectWidgets(out.value.grid, opts)

\* C29: repair is a fixpoint -- a repair-enabled call on the grid returned
\* by a repair-enabled call, with the same threshold and plugins, changes no
\* further cell and returns the same widgets.
C29_RepairFixpoint ==
  RepairEnabled =>
    /\ Again.value.grid.cells = out.value.grid.cells
    /\ Again.value.widgets = out.value.widgets

====
